---------------------------- MODULE Spec2Model ----------------------------
(***************************************************************************)
(* Inventory valuation and invoice ledger engine.                          *)
(*                                                                         *)
(* The store is a bucket of JSON files: one file per product, one file of  *)
(* movement history per product, one file per invoice, one master record   *)
(* per company.  Every handler is an async function; every `await` on the  *)
(* bucket is a point where other handlers may run, so each handler is      *)
(* modelled as a sequence of steps, one per bucket access.                 *)
(*                                                                         *)
(* Money is counted in thousandths of a currency unit (10.00 = 10000), so  *)
(* that toFixed(2) is a real rounding (to a multiple of 10) and inputs     *)
(* with more than two decimals exist.  toFixed(2) is modelled as rounding  *)
(* of the exact decimal value, half away from zero; the binary             *)
(* representation error of JavaScript doubles is not modelled.             *)
(***************************************************************************)
EXTENDS Integers, Sequences, FiniteSets, TLC

VARIABLES
  cfg,        \* the input sets requests are drawn from (fixed by Init)
  companies,  \* companies-master/{companyId}.json : status of each company
  products,   \* companies/{companyId}/products/{sku}.json
  movements,  \* companies/{companyId}/movements/{sku}.json
  invoices,   \* companies/{companyId}/invoices/{id}.json
  clock,      \* Date.now(), which names a new invoice
  calls,      \* handler invocations in flight
  nops,       \* number of invocations that got past their first checks
  done        \* the last invocation that returned, with its status code

vars == <<cfg, companies, products, movements, invoices, clock, calls, nops, done>>

\* Number of invocations, not counting those rejected at once, explored.
MaxOps == 3

-----------------------------------------------------------------------------
(* Bucket files: a store is a function from keys to contents; a key outside *)
(* its domain is a file that does not exist.                                *)

Exists(store, key) == key \in DOMAIN store

Save(store, key, val) ==
  [k \in (DOMAIN store) \cup {key} |-> IF k = key THEN val ELSE store[k]]

Delete(store, key) == [k \in (DOMAIN store) \ {key} |-> store[k]]

NoFiles == [k \in {} |-> 0]

-----------------------------------------------------------------------------
(* Numbers.                                                                 *)

\* Number(undefined): not a number.  It is NaN in memory and null once
\* JSON.stringify has written it to a file; every comparison with it is false.
NaN == -999999999

\* x || 0
OrZero(x) == IF x = NaN THEN 0 ELSE x

Abs(x) == IF x < 0 THEN -x ELSE x

Max(a, b) == IF a >= b THEN a ELSE b

\* Number(x.toFixed(2)) / parseFloat(x.toFixed(2)) for x in thousandths.
Round2(x) ==
  IF x >= 0 THEN ((x + 5) \div 10) * 10 ELSE -(((-x + 5) \div 10) * 10)

\* parseFloat((n / d).toFixed(2)) for n in thousandths and an integer d > 0.
Round2Div(n, d) ==
  IF n >= 0 THEN ((2 * n + 10 * d) \div (20 * d)) * 10
            ELSE -(((2 * (-n) + 10 * d) \div (20 * d)) * 10)

-----------------------------------------------------------------------------
(* Notes are strings, modelled as sequences of characters.                  *)

LowerTable ==
  [ch \in {"R", "C", "A", "N", "E", "L"} |->
     CASE ch = "R" -> "r" [] ch = "C" -> "c" [] ch = "A" -> "a"
       [] ch = "N" -> "n" [] ch = "E" -> "e" [] ch = "L" -> "l"]

\* String.prototype.toLowerCase
ToLowerCase(s) ==
  [i \in 1..Len(s) |-> IF s[i] \in DOMAIN LowerTable THEN LowerTable[s[i]] ELSE s[i]]

\* String.prototype.includes
Includes(s, sub) ==
  \E i \in 1..(Len(s) - Len(sub) + 1) : SubSeq(s, i, i + Len(sub) - 1) = sub

StrRollback == <<"r", "o", "l", "l", "b", "a", "c", "k">>
StrCancel == <<"c", "a", "n", "c", "e", "l">>

\* stockIn's test for a reversal entry, which keeps the average cost.
IsRollbackNote(note) ==
  \/ Includes(ToLowerCase(note), StrRollback)
  \/ Includes(ToLowerCase(note), StrCancel)

\* The start of the note cancelInvoice passes to stockIn.
CancelNote ==
  <<"R", "o", "l", "l", "b", "a", "c", "k", ":", " ",
    "C", "a", "n", "c", "e", "l", "l", "e", "d">>

Digits == <<"0", "1", "2", "3", "4", "5", "6", "7", "8", "9">>

RECURSIVE NumberText(_)
\* `${n}` for an integer n: its decimal digits, after a minus sign if n < 0.
NumberText(n) ==
  IF n < 0 THEN <<"-">> \o NumberText(-n)
  ELSE IF n < 10 THEN <<Digits[n + 1]>>
  ELSE NumberText(n \div 10) \o <<Digits[(n % 10) + 1]>>

\* The note cancelInvoice passes to stockIn: `Rollback: Cancelled ${invoiceNumber}`.
RollbackNote(invoiceNumber) == CancelNote \o <<" ">> \o NumberText(invoiceNumber)

\* The note createInvoice passes to stockOut: `Invoice ${invId}`.
InvoiceNote(invId) == <<"I", "n", "v", "o", "i", "c", "e", " ">> \o NumberText(invId)

\* The note recordMovement makes up when it is given none.
GeneratedNote(op, quantity) ==
  CASE op = "stockIn" -> <<"S", "t", "o", "c", "k", " ", "a", "d", "d", "e", "d">>
    [] op = "stockOut" -> <<"S", "o", "l", "d", " ">> \o NumberText(quantity) \o <<" ", "u", "n", "i", "t", "(", "s", ")">>
    [] OTHER -> <<"M", "a", "n", "u", "a", "l", " ", "s", "t", "o", "c", "k", " ", "a", "d", "j", "u", "s", "t", "m", "e", "n", "t">>

-----------------------------------------------------------------------------
(* The tenant gate.  0 stands for "no error".                               *)

Tenants == {"t1", "t2"}

\* A gate that asks only whether the company has a record.
validateCompanyAccessAnyStatus(t) ==
  IF companies[t] = "NONE" THEN 404 ELSE 0

validateCompanyAccess(t) ==
  IF companies[t] = "NONE" THEN 404
  ELSE IF companies[t] # "ACTIVE" THEN 403
  ELSE 0

\* Status code of getProductBySku: the gate, then the existence of the file.
getProductBySkuCode(t, sku) ==
  IF validateCompanyAccess(t) # 0 THEN validateCompanyAccess(t)
  ELSE IF ~Exists(products, <<t, sku>>) THEN 404
  ELSE 0

-----------------------------------------------------------------------------
(* Stock operations: what each one computes from the product it has read.   *)

\* A stockIn that takes only "rollback", not "cancel", for a reversal.
StockInUpdatesRollbackOnly(product, quantity, costPerUnit, note) ==
  LET newTotalQty    == product.stockOnHand + quantity
      newAverageCost ==
        IF Includes(ToLowerCase(note), StrRollback) THEN product.averageCost
        ELSE Round2Div(product.stockOnHand * product.averageCost
                         + quantity * costPerUnit, newTotalQty)
  IN [stockOnHand    |-> newTotalQty,
      averageCost    |-> newAverageCost,
      inventoryValue |-> Round2(newTotalQty * newAverageCost)]

\* A stockIn that recomputes the weighted average whatever the note says.
StockInUpdatesAlwaysAverage(product, quantity, costPerUnit, note) ==
  LET newTotalQty == product.stockOnHand + quantity
      newAverageCost ==
        Round2Div(product.stockOnHand * product.averageCost
                    + quantity * costPerUnit, newTotalQty)
  IN [stockOnHand    |-> newTotalQty,
      averageCost    |-> newAverageCost,
      inventoryValue |-> Round2(newTotalQty * newAverageCost)]

\* A stockIn that adds the quantity twice.
StockInUpdatesTwice(product, quantity, costPerUnit, note) ==
  [stockOnHand    |-> product.stockOnHand + 2 * quantity,
   averageCost    |-> product.averageCost,
   inventoryValue |-> Round2((product.stockOnHand + 2 * quantity)
                               * OrZero(product.averageCost))]

\* stockIn: the updates handed to updateProduct.
StockInUpdates(product, quantity, costPerUnit, note) ==
  LET currentQty     == OrZero(product.stockOnHand)
      currentAvgCost == OrZero(product.averageCost)
      newTotalQty    == currentQty + quantity
      newAverageCost ==
        IF IsRollbackNote(note) THEN currentAvgCost
        ELSE IF costPerUnit = NaN THEN NaN
        ELSE Round2Div(currentQty * currentAvgCost + quantity * costPerUnit,
                       newTotalQty)
  IN [stockOnHand    |-> newTotalQty,
      averageCost    |-> newAverageCost,
      inventoryValue |-> IF newAverageCost = NaN THEN NaN
                         ELSE Round2(newTotalQty * newAverageCost)]

\* A stockOut that values the stock it had, not the stock it leaves.
StockQtyUpdatesStaleValue(product, newQty) ==
  [stockOnHand    |-> newQty,
   inventoryValue |-> Round2(product.stockOnHand * product.averageCost)]

\* stockOut and stockAdjustment: stock and value only, at the cost read.
StockQtyUpdates(product, newQty) ==
  [stockOnHand    |-> newQty,
   inventoryValue |-> Round2(newQty * OrZero(product.averageCost))]

\* An updateProduct that loses the selling price.
MergeUpdatesLosingPrice(product, updates) ==
  [f \in DOMAIN product |->
     IF f \in DOMAIN updates THEN updates[f]
     ELSE IF f = "sellingPrice" THEN 0 ELSE product[f]]

\* updateProduct: { ...product, ...updates }
MergeUpdates(product, updates) ==
  [f \in (DOMAIN product) \cup (DOMAIN updates) |->
     IF f \in DOMAIN updates THEN updates[f] ELSE product[f]]

-----------------------------------------------------------------------------
(* Invocations in flight.  A call is one handler invocation; its tasks are  *)
(* the stockIn / stockOut / stockAdjustment invocations it is running: the  *)
(* call itself for the three stock handlers, one stockOut at a time for     *)
(* createInvoice, and all the rollback stockIns at once for cancelInvoice   *)
(* (Promise.all).                                                           *)

Nil == [nil |-> TRUE]

Snapshot == [products |-> products, movements |-> movements, invoices |-> invoices]

BlankCall ==
  [op |-> "none", t |-> "t1", sku |-> "", quantity |-> 0, costPerUnit |-> 0,
   note |-> <<>>, items |-> <<>>, status |-> "", invNo |-> 0, amount |-> 0,
   costPrice |-> 0, sellingPrice |-> 0, updates |-> Nil,
   pc |-> "", idx |-> 0, invId |-> 0,
   invoiceSubtotal |-> 0, totalTaxAmount |-> 0, totalCostOfGoods |-> 0,
   finalItems |-> <<>>, invoice |-> Nil, product |-> Nil,
   tasks |-> <<>>, returned |-> FALSE, pre |-> Nil, result |-> Nil]

NewTask(op, sku, quantity, costPerUnit, note, pc, err) ==
  [op |-> op, sku |-> sku, quantity |-> quantity, costPerUnit |-> costPerUnit,
   note |-> note, pc |-> pc, err |-> err, updates |-> Nil, moveCost |-> 0,
   product |-> Nil, updatedProduct |-> Nil, history |-> <<>>]

NoDone == [call |-> BlankCall, code |-> 0]

OK == 200

StockOps == {"stockIn", "stockOut", "stockAdjustment"}

\* Calls whose caller is still waiting for the result.
Waiting == {c \in DOMAIN calls : ~calls[c].returned}

\* At rest: no handler is running.
Idle == DOMAIN calls = {}

\* A history file that JSON.parse rejects.
Corrupt == <<[corrupt |-> TRUE]>>

FreeSlot == CHOOSE s \in 1..(Cardinality(DOMAIN calls) + 1) : s \notin DOMAIN calls

CanBegin == nops < cfg.maxOps /\ Cardinality(Waiting) < cfg.maxCalls

\* A report can also be asked for once the last invocation explored is over.
CanRead == CanBegin \/ Idle

\* The handler returned (or threw) before its first await on the bucket.
ReturnAtOnce(call, code) ==
  /\ done' = [call |-> call, code |-> code]
  /\ UNCHANGED <<cfg, companies, calls, products, movements, invoices, clock, nops>>

\* The handler is now in flight.
Start(call) ==
  /\ calls' = Save(calls, FreeSlot, call)
  /\ done' = NoDone
  /\ nops' = nops + 1
  /\ UNCHANGED <<cfg, companies, products, movements, invoices, clock>>

\* The handler returns to its caller; tasks still running stay in flight.
Return(c, code) ==
  /\ done' = [call |-> calls[c], code |-> code]
  /\ calls' = IF \E k \in DOMAIN calls[c].tasks :
                     calls[c].tasks[k].pc \notin {"ok", "fail"}
              THEN [calls EXCEPT ![c].returned = TRUE]
              ELSE Delete(calls, c)

SetTask(c, k, task) ==
  LET call == [calls[c] EXCEPT !.tasks[k] = task]
  IN IF call.returned /\ \A j \in DOMAIN call.tasks : call.tasks[j].pc \in {"ok", "fail"}
     THEN Delete(calls, c)
     ELSE Save(calls, c, call)

Fail(task, code) == [task EXCEPT !.pc = "fail", !.err = code]

-----------------------------------------------------------------------------
(* The checks each stock handler makes before its first await.              *)

\* stockIn: quantity, then cost unless the note says "rollback".
StockInCheck(quantity, costPerUnit, note) ==
  IF quantity <= 0 THEN 400
  ELSE IF costPerUnit # NaN /\ costPerUnit < 0
          /\ ~Includes(ToLowerCase(note), StrRollback) THEN 400
  ELSE 0

\* A stockOut that takes any quantity.
StockOutCheckAnyQuantity(quantity) == 0

StockOutCheck(quantity) == IF quantity <= 0 THEN 400 ELSE 0

StockAdjustmentCheck(quantity) == IF quantity = 0 THEN 400 ELSE 0

\* An invocation of a stock handler by another handler: it runs up to its
\* first await, so a rejected argument has already failed it.
Invoke(op, sku, quantity, costPerUnit, note) ==
  LET code == CASE op = "stockIn" -> StockInCheck(quantity, costPerUnit, note)
                [] op = "stockOut" -> StockOutCheck(quantity)
                [] OTHER -> StockAdjustmentCheck(quantity)
  IN NewTask(op, sku, quantity, costPerUnit, note,
             IF code = 0 THEN "read" ELSE "fail", code)

BeginStock(op, t, sku, quantity, costPerUnit, note) ==
  LET call == [BlankCall EXCEPT !.op = op, !.t = t, !.sku = sku,
                 !.quantity = quantity, !.costPerUnit = costPerUnit,
                 !.note = note, !.pre = Snapshot]
      task == Invoke(op, sku, quantity, costPerUnit, note)
  IN /\ CanBegin
     /\ IF task.pc = "fail" THEN ReturnAtOnce(call, task.err)
        ELSE Start([call EXCEPT !.tasks = <<task>>])

stockIn(t, sku, quantity, costPerUnit, note) ==
  BeginStock("stockIn", t, sku, quantity, costPerUnit, note)

stockOut(t, sku, quantity, note) ==
  BeginStock("stockOut", t, sku, quantity, 0, note)

stockAdjustment(t, sku, quantity, note) ==
  BeginStock("stockAdjustment", t, sku, quantity, 0, note)

-----------------------------------------------------------------------------
(* The steps of a stock handler.                                            *)

\* A stock test that lets one unit too many through.
InsufficientStockOffByOne(product, quantity) == product.stockOnHand + 1 < quantity

\* stockOut's test after loading the product: not enough stock.
InsufficientStock(product, quantity) == product.stockOnHand < quantity

\* An adjustment test that lets the stock go to -1.
NegativeStockOffByOne(newQty) == newQty < -1

\* stockAdjustment's test after loading the product.
NegativeStock(newQty) == newQty < 0

\* getProductBySku, then the handler's own check and computation.
AfterRead(call, task) ==
  LET code    == getProductBySkuCode(call.t, task.sku)
      product == products[<<call.t, task.sku>>]
  IN IF code # 0 THEN Fail(task, code)
     ELSE CASE task.op = "stockIn" ->
                 [task EXCEPT !.pc = "uread",
                    !.updates = StockInUpdates(product, task.quantity,
                                               task.costPerUnit, task.note),
                    !.moveCost = IF task.costPerUnit \notin {0, NaN}
                                 THEN task.costPerUnit
                                 ELSE OrZero(product.averageCost)]
            [] task.op = "stockOut" ->
                 IF InsufficientStock(product, task.quantity) THEN Fail(task, 400)
                 ELSE [task EXCEPT !.pc = "uread",
                         !.updates = StockQtyUpdates(product,
                                        product.stockOnHand - task.quantity)]
            [] OTHER ->
                 IF NegativeStock(product.stockOnHand + task.quantity)
                 THEN Fail(task, 400)
                 ELSE [task EXCEPT !.pc = "uread",
                         !.updates = StockQtyUpdates(product,
                                        product.stockOnHand + task.quantity)]

TaskRead(c, k) ==
  /\ calls[c].tasks[k].pc = "read"
  /\ calls' = SetTask(c, k, AfterRead(calls[c], calls[c].tasks[k]))
  /\ UNCHANGED <<cfg, companies, products, movements, invoices, clock, nops, done>>

\* updateProduct reads the product again.
TaskUpdateRead(c, k) ==
  LET call == calls[c]
      task == call.tasks[k]
      code == getProductBySkuCode(call.t, task.sku)
  IN /\ task.pc = "uread"
     /\ calls' = SetTask(c, k,
                   IF code # 0 THEN Fail(task, code)
                   ELSE [task EXCEPT !.pc = "usave",
                           !.product = products[<<call.t, task.sku>>]])
     /\ UNCHANGED <<cfg, companies, products, movements, invoices, clock, nops, done>>

\* updateProduct saves the product it read, overlaid with the updates.
TaskUpdateSave(c, k) ==
  LET call == calls[c]
      task == call.tasks[k]
      updatedProduct == MergeUpdates(task.product, task.updates)
  IN /\ task.pc = "usave"
     /\ products' = Save(products, <<call.t, task.sku>>, updatedProduct)
     /\ calls' = SetTask(c, k, [task EXCEPT !.pc = "mread",
                                  !.updatedProduct = updatedProduct])
     /\ UNCHANGED <<cfg, companies, movements, invoices, clock, nops, done>>

\* A history path that leaves the company out.
getMovementFileOfAnyCompany(t, sku) == <<"t1", sku>>

\* companies/{companyId}/movements/{sku}.json
getMovementFile(t, sku) == <<t, sku>>

\* The status of an error that is not an AppError.
StoreError == 500

\* A load that takes the file as it is.
LoadHistoryUnparsed(key) ==
  IF Exists(movements, key) THEN movements[key] ELSE <<>>

\* The history recordMovement starts from: the file if it exists and parses.
LoadHistory(key) ==
  IF Exists(movements, key) /\ movements[key] # Corrupt THEN movements[key]
  ELSE <<>>

\* recordMovement reads the history file, or starts an empty history; it
\* catches an error of the store while it looks for the file or downloads
\* it, and goes on with the empty history.
TaskMoveRead(c, k) ==
  LET call == calls[c]
      task == call.tasks[k]
      key  == getMovementFile(call.t, task.sku)
  IN /\ task.pc = "mread"
     /\ \E works \in cfg.storeWorks :
          calls' = SetTask(c, k, [task EXCEPT !.pc = "msave",
                     !.history = IF works THEN LoadHistory(key) ELSE <<>>])
     /\ UNCHANGED <<cfg, companies, products, movements, invoices, clock, nops, done>>

MovementType(op) ==
  CASE op = "stockIn" -> "Stock In"
    [] op = "stockOut" -> "Stock Out"
    [] OTHER -> "Stock Adjustment"

\* The record recordMovement pushes; of the audit note it keeps the note that
\* follows the type, quantity and cost.
MovementRecord(task) ==
  [type                |-> MovementType(task.op),
   quantity            |-> task.quantity,
   costPerUnit         |-> IF task.op = "stockIn" THEN task.moveCost
                           ELSE task.updatedProduct.averageCost,
   note                |-> IF task.note = <<>>
                           THEN GeneratedNote(task.op, task.quantity)
                           ELSE task.note,
   stockOnHandAfter    |-> task.updatedProduct.stockOnHand,
   inventoryValueAfter |-> task.updatedProduct.inventoryValue,
   averageCostAfter    |-> task.updatedProduct.averageCost]

\* recordMovement saves the history with the new record pushed; an error of
\* the store on this save is thrown to the caller of the stock handler.
TaskMoveSave(c, k) ==
  LET call == calls[c]
      task == call.tasks[k]
  IN /\ task.pc = "msave"
     /\ \E works \in cfg.storeWorks :
          IF works
          THEN /\ movements' = Save(movements, getMovementFile(call.t, task.sku),
                                    Append(task.history, MovementRecord(task)))
               /\ calls' = SetTask(c, k, [task EXCEPT !.pc = "ok"])
          ELSE /\ movements' = movements
               /\ calls' = SetTask(c, k, Fail(task, StoreError))
     /\ UNCHANGED <<cfg, companies, products, invoices, clock, nops, done>>

\* A stock handler returns its product, or throws its task's error.
StockReturn(c) ==
  /\ calls[c].op \in StockOps
  /\ ~calls[c].returned
  /\ calls[c].tasks[1].pc \in {"ok", "fail"}
  /\ Return(c, IF calls[c].tasks[1].pc = "ok" THEN OK ELSE calls[c].tasks[1].err)
  /\ UNCHANGED <<cfg, companies, products, movements, invoices, clock, nops>>

-----------------------------------------------------------------------------
(* Products.                                                                *)

createProductCheck(costPrice, sellingPrice) ==
  IF costPrice < 0 THEN 400
  ELSE IF sellingPrice < 0 THEN 400
  ELSE 0

\* The product createProduct stores; every product is named after its SKU,
\* with the default category and reorder level.
NewProduct(sku, costPrice, sellingPrice) ==
  [sku |-> sku, name |-> sku, category |-> "", costPrice |-> costPrice,
   sellingPrice |-> sellingPrice, reorderLevel |-> 0,
   stockOnHand |-> 0, averageCost |-> costPrice, inventoryValue |-> 0]

\* A createProduct that does not ask whether the SKU exists.
createProductOverwriting(t, sku, costPrice, sellingPrice) ==
  LET call == [BlankCall EXCEPT !.op = "createProduct", !.t = t, !.sku = sku,
                 !.costPrice = costPrice, !.sellingPrice = sellingPrice,
                 !.pc = "save", !.pre = Snapshot]
  IN /\ CanBegin
     /\ IF validateCompanyAccess(t) # 0 THEN ReturnAtOnce(call, validateCompanyAccess(t))
        ELSE IF createProductCheck(costPrice, sellingPrice) # 0
          THEN ReturnAtOnce(call, createProductCheck(costPrice, sellingPrice))
        ELSE Start(call)

\* createProduct up to the existence check.
createProduct(t, sku, costPrice, sellingPrice) ==
  LET call == [BlankCall EXCEPT !.op = "createProduct", !.t = t, !.sku = sku,
                 !.costPrice = costPrice, !.sellingPrice = sellingPrice,
                 !.pc = "save", !.pre = Snapshot]
  IN /\ CanBegin
     /\ IF validateCompanyAccess(t) # 0 THEN ReturnAtOnce(call, validateCompanyAccess(t))
        ELSE IF createProductCheck(costPrice, sellingPrice) # 0
          THEN ReturnAtOnce(call, createProductCheck(costPrice, sellingPrice))
        ELSE IF Exists(products, <<t, sku>>) THEN ReturnAtOnce(call, 409)
        ELSE Start(call)

\* createProduct saves the new product.
ProductSave(c) ==
  LET call == calls[c]
  IN /\ call.op = "createProduct"
     /\ call.pc = "save"
     /\ products' = Save(products, <<call.t, call.sku>>,
                         NewProduct(call.sku, call.costPrice, call.sellingPrice))
     /\ Return(c, OK)
     /\ UNCHANGED <<cfg, companies, movements, invoices, clock, nops>>

\* updateProduct's checks: the gate, the product file, the new values.
updateProductCode(t, sku, updates) ==
  IF getProductBySkuCode(t, sku) # 0 THEN getProductBySkuCode(t, sku)
  ELSE IF \E f \in (DOMAIN updates) \cap {"costPrice", "sellingPrice", "reorderLevel"} :
            updates[f] < 0 THEN 400
  ELSE 0

\* updateProduct called for itself, up to the save: the product is read.
updateProduct(t, sku, updates) ==
  LET call == [BlankCall EXCEPT !.op = "updateProduct", !.t = t, !.sku = sku,
                 !.updates = updates, !.pc = "save", !.pre = Snapshot]
      code == updateProductCode(t, sku, updates)
  IN /\ CanBegin
     /\ IF code # 0 THEN ReturnAtOnce(call, code)
        ELSE Start([call EXCEPT !.product = products[<<t, sku>>]])

\* An updateProduct that also reprices the lines of the stored invoices.
UpdateSaveRepricing(c) ==
  LET call == calls[c]
      Repriced(line) ==
        IF line.sku = call.sku /\ "sellingPrice" \in DOMAIN call.updates
        THEN [line EXCEPT !.sellingPrice = call.updates.sellingPrice]
        ELSE line
  IN /\ call.op = "updateProduct"
     /\ call.pc = "save"
     /\ products' = Save(products, <<call.t, call.sku>>,
                         MergeUpdates(call.product, call.updates))
     /\ invoices' = [k \in DOMAIN invoices |->
                       [invoices[k] EXCEPT !.items =
                          [i \in DOMAIN invoices[k].items |->
                             Repriced(invoices[k].items[i])]]]
     /\ Return(c, OK)
     /\ UNCHANGED <<cfg, companies, movements, clock, nops>>

\* updateProduct saves the product it read, overlaid with the updates.
UpdateSave(c) ==
  LET call == calls[c]
  IN /\ call.op = "updateProduct"
     /\ call.pc = "save"
     /\ products' = Save(products, <<call.t, call.sku>>,
                         MergeUpdates(call.product, call.updates))
     /\ Return(c, OK)
     /\ UNCHANGED <<cfg, companies, movements, invoices, clock, nops>>

\* deleteProduct: the gate, the existence check, the delete.
deleteProduct(t, sku) ==
  LET call == [BlankCall EXCEPT !.op = "deleteProduct", !.t = t, !.sku = sku,
                 !.pre = Snapshot]
      code == getProductBySkuCode(t, sku)
  IN /\ CanBegin
     /\ IF code # 0 THEN ReturnAtOnce(call, code)
        ELSE /\ products' = Delete(products, <<t, sku>>)
             /\ done' = [call |-> call, code |-> OK]
             /\ nops' = nops + 1
             /\ UNCHANGED <<cfg, companies, movements, invoices, clock, calls>>

-----------------------------------------------------------------------------
(* Invoices.                                                                *)

\* Number(product.taxPercent || 0): no handler stores a taxPercent.
TaxPercentOf(product) ==
  IF "taxPercent" \in DOMAIN product THEN product.taxPercent ELSE 0

\* createInvoice up to Date.now(): the gate, then the invoice number.
createInvoice(t, items, status) ==
  LET call == [BlankCall EXCEPT !.op = "createInvoice", !.t = t, !.items = items,
                 !.status = status, !.pre = Snapshot]
  IN /\ CanBegin
     /\ IF validateCompanyAccess(t) # 0 THEN ReturnAtOnce(call, validateCompanyAccess(t))
        ELSE Start([call EXCEPT !.invId = clock, !.idx = 1,
                      !.pc = IF items = <<>> THEN "deduct" ELSE "validate"])

\* createInvoice returns or throws; by then the clock has moved on.
InvoiceReturn(c, code) ==
  /\ Return(c, code)
  /\ clock' = Max(clock, calls[c].invId + 1)

\* One turn of the first loop: load the product of a line, check its stock,
\* add the line to the totals.
InvoiceValidateLine(c) ==
  LET call    == calls[c]
      item    == call.items[call.idx]
      code    == getProductBySkuCode(call.t, item.sku)
      product == products[<<call.t, item.sku>>]
      lineSubtotal == item.quantity * product.sellingPrice
      lineTax      == (lineSubtotal * TaxPercentOf(product)) \div 100
      line == [sku |-> item.sku, name |-> product.name,
               quantity |-> item.quantity,
               sellingPrice |-> product.sellingPrice,
               costPrice |-> product.costPrice,
               taxPercent |-> TaxPercentOf(product),
               taxAmount |-> Round2(lineTax),
               lineSubtotal |-> Round2(lineSubtotal),
               lineTotal |-> Round2(lineSubtotal + lineTax)]
  IN /\ call.op = "createInvoice"
     /\ call.pc = "validate"
     /\ IF code # 0 THEN InvoiceReturn(c, code) /\ UNCHANGED nops
        ELSE IF product.stockOnHand < item.quantity
          THEN InvoiceReturn(c, 400) /\ UNCHANGED nops
        ELSE /\ calls' = [calls EXCEPT ![c] =
                  [call EXCEPT
                     !.invoiceSubtotal = @ + lineSubtotal,
                     !.totalTaxAmount = @ + lineTax,
                     !.totalCostOfGoods = @ + item.quantity * product.costPrice,
                     !.finalItems = Append(@, line),
                     !.idx = IF call.idx = Len(call.items) THEN 1 ELSE @ + 1,
                     !.pc = IF call.idx = Len(call.items) THEN "deduct" ELSE @]]
             /\ UNCHANGED <<clock, nops, done>>
     /\ UNCHANGED <<cfg, companies, products, movements, invoices>>

\* The stockOut createInvoice is awaiting, if any, has returned.
LineDeducted(call) ==
  IF call.tasks = <<>> THEN TRUE ELSE call.tasks[1].pc = "ok"

\* One turn of the second loop: call stockOut for the next line, once the
\* stockOut of the line before has returned.
InvoiceDeductLine(c) ==
  LET call == calls[c]
      item == call.finalItems[call.idx]
  IN /\ call.op = "createInvoice"
     /\ call.pc = "deduct"
     /\ call.idx <= Len(call.finalItems)
     /\ LineDeducted(call)
     /\ calls' = [calls EXCEPT ![c] =
          [call EXCEPT !.idx = @ + 1,
             !.tasks = <<Invoke("stockOut", item.sku, item.quantity, 0,
                             InvoiceNote(call.invId))>>]]
     /\ UNCHANGED <<cfg, companies, products, movements, invoices, clock, nops, done>>

\* A stockOut of the second loop threw: createInvoice throws the same error.
InvoiceThrow(c) ==
  LET call == calls[c]
  IN /\ call.op = "createInvoice"
     /\ call.pc = "deduct"
     /\ ~LineDeducted(call)
     /\ call.tasks[1].pc = "fail"
     /\ InvoiceReturn(c, call.tasks[1].err)
     /\ UNCHANGED <<cfg, companies, products, movements, invoices, nops>>

\* The invoice createInvoice stores.
NewInvoice(call) ==
  LET grandTotal == call.invoiceSubtotal + call.totalTaxAmount
  IN [invoiceNumber     |-> call.invId,
      date              |-> call.invId,
      items             |-> call.finalItems,
      subtotal          |-> Round2(call.invoiceSubtotal),
      totalTax          |-> Round2(call.totalTaxAmount),
      totalAmount       |-> Round2(grandTotal),
      outstandingAmount |-> IF call.status = "Paid" THEN 0 ELSE Round2(grandTotal),
      grossProfit       |-> Round2(call.invoiceSubtotal - call.totalCostOfGoods),
      status            |-> IF call.status = "Paid" THEN "Paid" ELSE "Unpaid",
      paidOn            |-> call.status = "Paid",
      cancelledAt       |-> FALSE]

\* Every line is deducted: createInvoice saves the invoice and returns it.
InvoiceSave(c) ==
  LET call == calls[c]
  IN /\ call.op = "createInvoice"
     /\ call.pc = "deduct"
     /\ call.idx > Len(call.finalItems)
     /\ LineDeducted(call)
     /\ invoices' = Save(invoices, <<call.t, call.invId>>, NewInvoice(call))
     /\ InvoiceReturn(c, OK)
     /\ UNCHANGED <<cfg, companies, products, movements, nops>>

\* A cancelInvoice that does not look at the status of the invoice.
cancelInvoiceCodeAnyStatus(t, invoiceNumber) ==
  IF validateCompanyAccess(t) # 0 THEN validateCompanyAccess(t)
  ELSE IF ~Exists(invoices, <<t, invoiceNumber>>) THEN 404
  ELSE 0

\* cancelInvoice's checks: the gate, the invoice file, its status.
cancelInvoiceCode(t, invoiceNumber) ==
  IF validateCompanyAccess(t) # 0 THEN validateCompanyAccess(t)
  ELSE IF ~Exists(invoices, <<t, invoiceNumber>>) THEN 404
  ELSE IF invoices[<<t, invoiceNumber>>].status = "Cancelled" THEN 400
  ELSE 0

\* cancelInvoice up to Promise.all: the checks, then one rollback stockIn per
\* line, all started at once.
cancelInvoice(t, invoiceNumber) ==
  LET call == [BlankCall EXCEPT !.op = "cancelInvoice", !.t = t,
                 !.invNo = invoiceNumber, !.pre = Snapshot]
      code    == cancelInvoiceCode(t, invoiceNumber)
      invoice == invoices[<<t, invoiceNumber>>]
  IN /\ CanBegin
     /\ IF code # 0 THEN ReturnAtOnce(call, code)
        ELSE Start([call EXCEPT !.invoice = invoice, !.pc = "rollback",
                      !.tasks = [i \in 1..Len(invoice.items) |->
                         Invoke("stockIn", invoice.items[i].sku,
                                invoice.items[i].quantity,
                                invoice.items[i].costPrice,
                                RollbackNote(invoiceNumber))]])

\* The invoice cancelInvoice saves: the one it read, zeroed.
Cancelled(invoice) ==
  [invoice EXCEPT !.status = "Cancelled", !.subtotal = 0, !.totalTax = 0,
     !.totalAmount = 0, !.outstandingAmount = 0, !.grossProfit = 0,
     !.cancelledAt = TRUE]

\* Every rollback returned: cancelInvoice saves the invoice.
CancelSave(c) ==
  LET call == calls[c]
  IN /\ call.op = "cancelInvoice"
     /\ ~call.returned
     /\ \A k \in DOMAIN call.tasks : call.tasks[k].pc = "ok"
     /\ invoices' = Save(invoices, <<call.t, call.invNo>>, Cancelled(call.invoice))
     /\ Return(c, OK)
     /\ UNCHANGED <<cfg, companies, products, movements, clock, nops>>

\* A rollback threw: Promise.all rejects and cancelInvoice throws, while the
\* other rollbacks run on.
CancelThrow(c) ==
  LET call == calls[c]
  IN /\ call.op = "cancelInvoice"
     /\ ~call.returned
     /\ \E k \in DOMAIN call.tasks :
          /\ call.tasks[k].pc = "fail"
          /\ Return(c, call.tasks[k].err)
     /\ UNCHANGED <<cfg, companies, products, movements, invoices, clock, nops>>

\* A payment that marks the invoice Paid whatever is left to pay.
PaidWhateverIsLeft(invoice, amountReceived) ==
  [invoice EXCEPT
     !.outstandingAmount = Round2(invoice.outstandingAmount - amountReceived),
     !.status = "Paid", !.paidOn = TRUE]

\* The invoice recordPayment saves.
Paid(invoice, amountReceived) ==
  LET outstandingAmount == Round2(invoice.outstandingAmount - amountReceived)
  IN [invoice EXCEPT !.outstandingAmount = outstandingAmount,
        !.status = IF outstandingAmount = 0 THEN "Paid" ELSE @,
        !.paidOn = IF outstandingAmount = 0 THEN TRUE ELSE @]

\* A recordPayment that accepts more than is outstanding.
recordPaymentCodeOverpay(t, invoiceNumber, amountReceived) ==
  IF validateCompanyAccess(t) # 0 THEN validateCompanyAccess(t)
  ELSE IF ~Exists(invoices, <<t, invoiceNumber>>) THEN 404
  ELSE IF invoices[<<t, invoiceNumber>>].status = "Cancelled" THEN 400
  ELSE IF amountReceived <= 0 THEN 400
  ELSE 0

\* recordPayment's checks: the gate, the invoice file, its status, the amount.
recordPaymentCode(t, invoiceNumber, amountReceived) ==
  IF validateCompanyAccess(t) # 0 THEN validateCompanyAccess(t)
  ELSE IF ~Exists(invoices, <<t, invoiceNumber>>) THEN 404
  ELSE IF invoices[<<t, invoiceNumber>>].status = "Cancelled" THEN 400
  ELSE IF amountReceived <= 0 THEN 400
  ELSE IF amountReceived > invoices[<<t, invoiceNumber>>].outstandingAmount THEN 400
  ELSE 0

\* recordPayment up to the save.
recordPayment(t, invoiceNumber, amountReceived) ==
  LET call == [BlankCall EXCEPT !.op = "recordPayment", !.t = t,
                 !.invNo = invoiceNumber, !.amount = amountReceived,
                 !.pre = Snapshot]
      code == recordPaymentCode(t, invoiceNumber, amountReceived)
  IN /\ CanBegin
     /\ IF code # 0 THEN ReturnAtOnce(call, code)
        ELSE Start([call EXCEPT !.pc = "save",
                      !.invoice = Paid(invoices[<<t, invoiceNumber>>], amountReceived)])

\* recordPayment saves the invoice and returns it.
PaymentSave(c) ==
  LET call == calls[c]
  IN /\ call.op = "recordPayment"
     /\ call.pc = "save"
     /\ invoices' = Save(invoices, <<call.t, call.invNo>>, call.invoice)
     /\ Return(c, OK)
     /\ UNCHANGED <<cfg, companies, products, movements, clock, nops>>

-----------------------------------------------------------------------------
(* Reports, and the company's master record.                                *)

\* A getAllMovements that lists the history files of every company.
getAllMovementsOfAnyCompany(t) ==
  LET files == {k \in DOMAIN movements : movements[k] # Corrupt}
      call  == [BlankCall EXCEPT !.op = "getAllMovements", !.t = t,
                  !.pre = Snapshot,
                  !.result = [k \in files |-> movements[k]]]
  IN /\ CanBegin
     /\ ReturnAtOnce(call, OK)

\* getAllMovements: no gate; the history files under the company's prefix,
\* those that cannot be read left out.
getAllMovements(t) ==
  LET files == {k \in DOMAIN movements : k[1] = t /\ movements[k] # Corrupt}
      call  == [BlankCall EXCEPT !.op = "getAllMovements", !.t = t,
                  !.pre = Snapshot,
                  !.result = [k \in files |-> movements[k]]]
  IN /\ CanBegin
     /\ ReturnAtOnce(call, OK)

RECURSIVE SumOver(_, _)
\* The sum of the field named field over the records of the set invs.
SumOver(invs, field) ==
  IF invs = {} THEN 0
  ELSE LET inv == CHOOSE x \in invs : TRUE
       IN inv[field] + SumOver(invs \ {inv}, field)

\* Number of clock values in a calendar month.
MonthLength == 2

\* getMonth() and getFullYear() of a time.
MonthOf(time) == time \div MonthLength

RECURSIVE QuantityOf(_, _)
\* The sum of the quantities of the lines named name.
QuantityOf(items, name) ==
  IF items = <<>> THEN 0
  ELSE (IF Head(items).name = name THEN Head(items).quantity ELSE 0)
         + QuantityOf(Tail(items), name)

\* A summary that does not skip the Cancelled invoices.
SummaryWithCancelled(t) ==
  LET live == {k \in DOMAIN invoices : k[1] = t}
      month == {k \in live : MonthOf(invoices[k].date) = MonthOf(clock)}
      names == UNION {{invoices[k].items[i].name : i \in DOMAIN invoices[k].items} :
                        k \in month}
  IN [monthlySales     |-> Round2(SumOver({invoices[k] : k \in month}, "totalAmount")),
      monthlyProfit    |-> Round2(SumOver({invoices[k] : k \in month}, "grossProfit")),
      totalOutstanding |-> Round2(SumOver({invoices[k] : k \in live}, "outstandingAmount")),
      topProducts      |-> [n \in names |->
                              SumOver({[invoiceNumber |-> invoices[k].invoiceNumber,
                                        quantity |-> QuantityOf(invoices[k].items, n)] :
                                         k \in month}, "quantity")]]

\* The summary getDashboardSummary computes: Cancelled invoices are skipped;
\* the outstanding amounts are summed over all the others, the sales, the
\* profit and the quantities per product name over those dated in the month
\* of the call.
Summary(t) ==
  LET live == {k \in DOMAIN invoices :
                 k[1] = t /\ invoices[k].status # "Cancelled"}
      month == {k \in live : MonthOf(invoices[k].date) = MonthOf(clock)}
      names == UNION {{invoices[k].items[i].name : i \in DOMAIN invoices[k].items} :
                        k \in month}
  IN [monthlySales     |-> Round2(SumOver({invoices[k] : k \in month}, "totalAmount")),
      monthlyProfit    |-> Round2(SumOver({invoices[k] : k \in month}, "grossProfit")),
      totalOutstanding |-> Round2(SumOver({invoices[k] : k \in live}, "outstandingAmount")),
      topProducts      |-> [n \in names |->
                              SumOver({[invoiceNumber |-> invoices[k].invoiceNumber,
                                        quantity |-> QuantityOf(invoices[k].items, n)] :
                                         k \in month}, "quantity")]]

\* getDashboardSummary: the gate, then the invoices of the company.
getDashboardSummary(t) ==
  LET call == [BlankCall EXCEPT !.op = "getDashboardSummary", !.t = t,
                 !.pre = Snapshot]
  IN /\ CanRead
     /\ IF validateCompanyAccess(t) # 0
        THEN ReturnAtOnce(call, validateCompanyAccess(t))
        ELSE ReturnAtOnce([call EXCEPT !.result = Summary(t)], OK)

\* updateCompanyStatus: the administrator suspends or reactivates a company.
updateCompanyStatus(t, status) ==
  LET call == [BlankCall EXCEPT !.op = "updateCompanyStatus", !.t = t,
                 !.status = status, !.pre = Snapshot]
  IN /\ CanBegin
     /\ IF companies[t] = "NONE" \/ status \notin {"ACTIVE", "SUSPENDED"}
        THEN ReturnAtOnce(call, 500)
        ELSE /\ companies' = [companies EXCEPT ![t] = status]
             /\ done' = [call |-> call, code |-> OK]
             /\ nops' = nops + 1
             /\ UNCHANGED <<cfg, products, movements, invoices, clock, calls>>

-----------------------------------------------------------------------------
(* The requests.                                                            *)

NoteNone == <<>>
NotePlain == <<"n", "e", "w">>
NoteRollback == <<"R", "o", "l", "l", "b", "a", "c", "k">>
NoteCancel == <<"C", "A", "N", "C", "E", "L">>

Item(sku, quantity) == [sku |-> sku, quantity |-> quantity]

UpdateArgs(sku, updates) == [sku |-> sku, updates |-> updates]

\* An update that stores the selling price product A already has.
SamePrice == {UpdateArgs("A", [sellingPrice |-> 15000])}

StockInArgs(sku, quantity, costPerUnit, note) ==
  [sku |-> sku, quantity |-> quantity, costPerUnit |-> costPerUnit, note |-> note]

\* A product of the catalog, and the stock-in it has had when the run starts
\* (quantity 0: none).
ProductArgs(sku, costPrice, sellingPrice, quantity, costPerUnit) ==
  [sku |-> sku, costPrice |-> costPrice, sellingPrice |-> sellingPrice,
   quantity |-> quantity, costPerUnit |-> costPerUnit]

Active == [t \in Tenants |-> IF t = "t1" THEN "ACTIVE" ELSE "NONE"]

\* Requests made one at a time, with the variety in the stock operations.
StockCfg ==
  [maxCalls       |-> 1,
   maxOps         |-> MaxOps,
   storeWorks     |-> {TRUE},
   tenants        |-> {"t1"},
   companies      |-> Active,
   newStatuses    |-> {"ACTIVE"},
   corrupt        |-> {},
   created        |-> {ProductArgs("A", 10000, 15000, 1, 10000)},
   catalog        |-> {ProductArgs("A", 10000, 15000, 0, 0),
                       ProductArgs("A", -1000, 15000, 0, 0),
                       ProductArgs("B", 2504, 5004, 0, 0)},
   updates        |-> SamePrice,
   deletes        |-> {"A"},
   stockIns       |-> {StockInArgs("A", 0, 10000, NoteNone),
                       StockInArgs("A", -1, 10000, NoteNone),
                       StockInArgs("A", 1, 10000, NoteNone),
                       StockInArgs("A", 2, 20000, NoteNone),
                       StockInArgs("A", 1, -1000, NoteNone),
                       StockInArgs("A", 1, -1000, NoteRollback),
                       StockInArgs("A", 1, 20000, NoteCancel),
                       StockInArgs("A", 1, -1000, NoteCancel),
                       StockInArgs("B", 1, 2504, NotePlain),
                       StockInArgs("B", 1, 3333, NoteRollback)},
   stockOuts      |-> {Item("A", -1), Item("A", 0), Item("A", 1), Item("A", 2),
                       Item("B", 1)},
   adjustments    |-> {Item("A", -2), Item("A", -1), Item("A", 0), Item("A", 1),
                       Item("B", 1)},
   itemLists      |-> {<<Item("A", 1)>>, <<Item("A", 1), Item("A", 0)>>},
   statuses       |-> {"Unpaid"},
   invoiceNumbers |-> {1},
   amounts        |-> {5000}]

\* Requests made one at a time, with the variety in the invoices.
InvoiceCfg ==
  [maxCalls       |-> 1,
   maxOps         |-> MaxOps,
   storeWorks     |-> {TRUE},
   tenants        |-> {"t1"},
   companies      |-> Active,
   newStatuses    |-> {"ACTIVE"},
   corrupt        |-> {},
   created        |-> {ProductArgs("A", 10000, 15000, 2, 20000),
                       ProductArgs("B", 2504, 5004, 1, 2504)},
   catalog        |-> {ProductArgs("A", 10000, 15000, 0, 0)},
   updates        |-> {UpdateArgs("A", [sellingPrice |-> 20000]),
                       UpdateArgs("A", [costPrice |-> 12000, sellingPrice |-> 15000]),
                       UpdateArgs("B", [taxPercent |-> 50]),
                       UpdateArgs("A", [sellingPrice |-> -1])},
   deletes        |-> {"A"},
   stockIns       |-> {StockInArgs("A", 1, 10000, NoteNone)},
   stockOuts      |-> {Item("A", 1)},
   adjustments    |-> {Item("B", -1)},
   itemLists      |-> {<<>>, <<Item("A", 1)>>, <<Item("A", 3)>>,
                       <<Item("A", 1), Item("A", 1)>>,
                       <<Item("A", 2), Item("A", 1)>>,
                       <<Item("A", 1), Item("B", 1)>>,
                       <<Item("A", 1), Item("B", 0)>>,
                       <<Item("B", 1), Item("C", 1)>>},
   statuses       |-> {"Unpaid", "Paid"},
   invoiceNumbers |-> {1, 2, 3},
   amounts        |-> {-5000, 0, 4, 5000, 10000, 15000}]

\* Two requests at a time.
ConcCfg ==
  [maxCalls       |-> 2,
   maxOps         |-> MaxOps,
   storeWorks     |-> {TRUE},
   tenants        |-> {"t1"},
   companies      |-> Active,
   newStatuses    |-> {"ACTIVE"},
   corrupt        |-> {},
   created        |-> {ProductArgs("A", 10000, 15000, 1, 10000)},
   catalog        |-> {ProductArgs("A", 10000, 15000, 0, 0)},
   updates        |-> SamePrice,
   deletes        |-> {"A"},
   stockIns       |-> {StockInArgs("A", 1, 20000, NoteNone)},
   stockOuts      |-> {Item("A", 1)},
   adjustments    |-> {Item("A", -1)},
   itemLists      |-> {<<Item("A", 1)>>},
   statuses       |-> {"Unpaid"},
   invoiceNumbers |-> {1},
   amounts        |-> {15000}]

\* The product file of a created product: createProduct's, then stockIn's if
\* the product has been stocked.
InitProduct(p) ==
  LET new == NewProduct(p.sku, p.costPrice, p.sellingPrice)
  IN IF p.quantity = 0 THEN new
     ELSE MergeUpdates(new, StockInUpdates(new, p.quantity, p.costPerUnit, NoteNone))

\* Its movement file: the record of that stockIn.
InitMovements(p) ==
  <<MovementRecord([NewTask("stockIn", p.sku, p.quantity, p.costPerUnit,
                            NoteNone, "ok", 0)
                      EXCEPT !.moveCost = p.costPerUnit,
                             !.updatedProduct = InitProduct(p)])>>

\* Requests made one at a time, for a company that can be suspended and for
\* one that has no record, with a cost left out and a history file (B's) that
\* cannot be parsed.
EdgeCfg ==
  [maxCalls       |-> 1,
   maxOps         |-> MaxOps,
   storeWorks     |-> {TRUE},
   tenants        |-> {"t1", "t2"},
   companies      |-> Active,
   newStatuses    |-> {"SUSPENDED"},
   corrupt        |-> {"B"},
   created        |-> {ProductArgs("A", 10000, 15000, 1, 10000),
                       ProductArgs("B", 2504, 5004, 1, 2504)},
   catalog        |-> {ProductArgs("C", 10000, 15000, 0, 0)},
   updates        |-> SamePrice,
   deletes        |-> {"A"},
   stockIns       |-> {StockInArgs("A", 0, 10000, NoteNone),
                       StockInArgs("A", 1, NaN, NoteNone),
                       StockInArgs("A", 1, NaN, NoteRollback),
                       StockInArgs("B", 1, 2504, NoteNone)},
   stockOuts      |-> {Item("A", 1), Item("B", 1)},
   adjustments    |-> {Item("A", 0), Item("B", 1)},
   itemLists      |-> {<<Item("A", 1)>>, <<Item("A", 1), Item("A", 0)>>},
   statuses       |-> {"Unpaid"},
   invoiceNumbers |-> {1},
   amounts        |-> {5000}]

\* Two companies, both ACTIVE.
BothActive == [t \in Tenants |-> "ACTIVE"]

\* Two calls in flight, on two products of two companies.
ParCfg ==
  [maxCalls       |-> 2,
   maxOps         |-> MaxOps,
   storeWorks     |-> {TRUE},
   tenants        |-> {"t1", "t2"},
   companies      |-> BothActive,
   newStatuses    |-> {"ACTIVE"},
   corrupt        |-> {},
   created        |-> {ProductArgs("A", 10000, 15000, 1, 10000),
                       ProductArgs("B", 2504, 5004, 0, 0)},
   catalog        |-> {ProductArgs("C", 10000, 15000, 0, 0)},
   updates        |-> SamePrice,
   deletes        |-> {"A"},
   stockIns       |-> {StockInArgs("A", 1, 20000, NoteNone)},
   stockOuts      |-> {Item("B", 1)},
   adjustments    |-> {Item("B", 1)},
   itemLists      |-> {<<Item("A", 1)>>, <<Item("A", 1), Item("A", 0)>>},
   statuses       |-> {"Unpaid"},
   invoiceNumbers |-> {1},
   amounts        |-> {15000}]

\* One product created at 10.00 and stocked with 10 units at 10.00, then a
\* stock-in of 5 at 20.00, an invoice for 5 units and its cancellation.
ScenarioCfg ==
  [maxCalls       |-> 1,
   maxOps         |-> MaxOps,
   storeWorks     |-> {TRUE},
   tenants        |-> {"t1"},
   companies      |-> Active,
   newStatuses    |-> {"ACTIVE"},
   corrupt        |-> {},
   created        |-> {ProductArgs("A", 10000, 15000, 10, 10000)},
   catalog        |-> {ProductArgs("C", 10000, 15000, 0, 0)},
   updates        |-> SamePrice,
   deletes        |-> {"A"},
   stockIns       |-> {StockInArgs("A", 5, 20000, NoteNone)},
   stockOuts      |-> {Item("A", 1)},
   adjustments    |-> {Item("A", -1)},
   itemLists      |-> {<<Item("A", 5)>>, <<Item("A", 5), Item("A", 0)>>},
   statuses       |-> {"Unpaid"},
   invoiceNumbers |-> {1},
   amounts        |-> {5000}]

\* An invoice for two products, one of which is then deleted, cancelled and
\* cancelled again: one invocation more than elsewhere.
RetryCfg ==
  [maxCalls       |-> 1,
   maxOps         |-> MaxOps + 1,
   storeWorks     |-> {TRUE},
   tenants        |-> {"t1"},
   companies      |-> Active,
   newStatuses    |-> {"ACTIVE"},
   corrupt        |-> {},
   created        |-> {ProductArgs("A", 10000, 15000, 1, 10000),
                       ProductArgs("B", 2504, 5004, 1, 2504)},
   catalog        |-> {ProductArgs("C", 10000, 15000, 0, 0)},
   updates        |-> SamePrice,
   deletes        |-> {"A"},
   stockIns       |-> {StockInArgs("A", 1, 10000, NoteNone)},
   stockOuts      |-> {Item("A", 1)},
   adjustments    |-> {Item("A", 1)},
   itemLists      |-> {<<Item("A", 1), Item("B", 1)>>,
                       <<Item("A", 1), Item("A", 0)>>},
   statuses       |-> {"Unpaid"},
   invoiceNumbers |-> {1},
   amounts        |-> {5000}]

\* Stock operations on a store whose file operations may fail.
StorageCfg ==
  [maxCalls       |-> 1,
   maxOps         |-> MaxOps,
   storeWorks     |-> {TRUE, FALSE},
   tenants        |-> {"t1"},
   companies      |-> Active,
   newStatuses    |-> {"ACTIVE"},
   corrupt        |-> {},
   created        |-> {ProductArgs("A", 10000, 15000, 1, 10000)},
   catalog        |-> {ProductArgs("C", 10000, 15000, 0, 0)},
   updates        |-> SamePrice,
   deletes        |-> {"A"},
   stockIns       |-> {StockInArgs("A", 1, 20000, NoteNone)},
   stockOuts      |-> {Item("A", 1), Item("A", 3)},
   adjustments    |-> {Item("A", 1), Item("A", -3)},
   itemLists      |-> {<<Item("A", 1)>>, <<Item("A", 1), Item("A", 0)>>},
   statuses       |-> {"Unpaid"},
   invoiceNumbers |-> {1},
   amounts        |-> {5000}]

\* The companies of c that have a master record.
Registered(c) == {t \in c.tenants : c.companies[t] # "NONE"}

\* The bucket once the products of c.created have been created and stocked,
\* before any invoice.
InitialProducts(c) ==
  [k \in {<<t, p.sku>> : t \in Registered(c), p \in c.created} |->
     InitProduct(CHOOSE p \in c.created : p.sku = k[2])]

InitialMovements(c) ==
  [k \in {<<t, p.sku>> : t \in Registered(c),
             p \in {x \in c.created : x.quantity > 0}} |->
     IF k[2] \in c.corrupt THEN Corrupt
     ELSE InitMovements(CHOOSE p \in c.created : p.sku = k[2])]

InitWith(c) ==
  /\ cfg = c
  /\ companies = c.companies
  /\ products = InitialProducts(c)
  /\ movements = InitialMovements(c)
  /\ invoices = NoFiles
  /\ clock = 1
  /\ calls = NoFiles
  /\ nops = 0
  /\ done = NoDone

Init == InitWith(StockCfg)

Next ==
  \/ \E t \in cfg.tenants, p \in cfg.catalog :
        createProduct(t, p.sku, p.costPrice, p.sellingPrice)
  \/ \E t \in cfg.tenants, sku \in cfg.deletes : deleteProduct(t, sku)
  \/ \E t \in cfg.tenants, u \in cfg.updates : updateProduct(t, u.sku, u.updates)
  \/ \E c \in DOMAIN calls : UpdateSave(c)
  \/ \E t \in cfg.tenants, a \in cfg.stockIns :
        stockIn(t, a.sku, a.quantity, a.costPerUnit, a.note)
  \/ \E t \in cfg.tenants, a \in cfg.stockOuts :
        stockOut(t, a.sku, a.quantity, NoteNone)
  \/ \E t \in cfg.tenants, a \in cfg.adjustments :
        stockAdjustment(t, a.sku, a.quantity, NoteNone)
  \/ \E t \in cfg.tenants, items \in cfg.itemLists, status \in cfg.statuses :
        createInvoice(t, items, status)
  \/ \E t \in cfg.tenants, n \in cfg.invoiceNumbers : cancelInvoice(t, n)
  \/ \E t \in cfg.tenants, n \in cfg.invoiceNumbers, a \in cfg.amounts :
        recordPayment(t, n, a)
  \/ \E t \in cfg.tenants : getAllMovements(t)
  \/ \E t \in cfg.tenants : getDashboardSummary(t)
  \/ \E t \in cfg.tenants, status \in cfg.newStatuses : updateCompanyStatus(t, status)
  \/ \E c \in DOMAIN calls : ProductSave(c)
  \/ \E c \in DOMAIN calls : StockReturn(c)
  \/ \E c \in DOMAIN calls : InvoiceValidateLine(c)
  \/ \E c \in DOMAIN calls : InvoiceDeductLine(c)
  \/ \E c \in DOMAIN calls : InvoiceThrow(c)
  \/ \E c \in DOMAIN calls : InvoiceSave(c)
  \/ \E c \in DOMAIN calls : CancelSave(c)
  \/ \E c \in DOMAIN calls : CancelThrow(c)
  \/ \E c \in DOMAIN calls : PaymentSave(c)
  \/ \E c \in DOMAIN calls : \E k \in DOMAIN calls[c].tasks : TaskRead(c, k)
  \/ \E c \in DOMAIN calls : \E k \in DOMAIN calls[c].tasks : TaskUpdateRead(c, k)
  \/ \E c \in DOMAIN calls : \E k \in DOMAIN calls[c].tasks : TaskUpdateSave(c, k)
  \/ \E c \in DOMAIN calls : \E k \in DOMAIN calls[c].tasks : TaskMoveRead(c, k)
  \/ \E c \in DOMAIN calls : \E k \in DOMAIN calls[c].tasks : TaskMoveSave(c, k)

Spec == Init /\ [][Next]_vars

InitInvoice == InitWith(InvoiceCfg)

SpecInvoice == InitInvoice /\ [][Next]_vars

InitConc == InitWith(ConcCfg)

SpecConc == InitConc /\ [][Next]_vars

InitEdge == InitWith(EdgeCfg)

SpecEdge == InitEdge /\ [][Next]_vars

InitScenario == InitWith(ScenarioCfg)

SpecScenario == InitScenario /\ [][Next]_vars

InitPar == InitWith(ParCfg)

SpecPar == InitPar /\ [][Next]_vars

InitRetry == InitWith(RetryCfg)

SpecRetry == InitRetry /\ [][Next]_vars

InitStorage == InitWith(StorageCfg)

SpecStorage == InitStorage /\ [][Next]_vars

-----------------------------------------------------------------------------
(* Properties.  `done` is the last invocation that returned: its arguments, *)
(* the bucket as it was when the invocation was made (pre), and its status  *)
(* code; the bucket variables are the bucket as the invocation left it.     *)

Returned(op) == done.call.op = op

Succeeded(op) == done.call.op = op /\ done.code = OK

Pre == done.call.pre

DoneKey == <<done.call.t, done.call.sku>>

\* r is n / d rounded to two decimals (a multiple of 10 thousandths), a tie
\* going away from zero.
IsRound2(r, n, d) ==
  /\ r % 10 = 0
  /\ \/ 2 * Abs(r * d - n) < 10 * d
     \/ 2 * Abs(r * d - n) = 10 * d /\ Abs(r * d) > Abs(n)

ValueConsistent(product) ==
  IsRound2(product.inventoryValue, product.stockOnHand * product.averageCost, 1)

\* C1: after every successful stockIn, stockOut, stockAdjustment, createInvoice
\* and cancelInvoice, run one at a time, every stored product has
\* inventoryValue = round2(stockOnHand x averageCost).
C1_InventoryValue ==
  (done.code = OK /\ done.call.op \in StockOps \cup {"createInvoice", "cancelInvoice"})
    => \A k \in DOMAIN products : ValueConsistent(products[k])

\* C1 witness: a stockIn has succeeded and left a product whose value is the
\* rounding of stock x cost, not the product itself.
C1_Witness ==
  /\ Succeeded("stockIn")
  /\ products[DoneKey].stockOnHand > 0
  /\ products[DoneKey].inventoryValue
       # products[DoneKey].stockOnHand * products[DoneKey].averageCost

\* C3: a successful stockIn of q2 at c2 into q1 at c1 leaves stockOnHand q1+q2
\* and averageCost round2((q1*c1 + q2*c2)/(q1+q2)), or exactly c1 when the note
\* contains "rollback" or "cancel" in any case.
C3_StockInWeightedAverage ==
  Succeeded("stockIn") =>
    LET q1 == Pre.products[DoneKey].stockOnHand
        c1 == Pre.products[DoneKey].averageCost
        q2 == done.call.quantity
        c2 == done.call.costPerUnit
        lower == ToLowerCase(done.call.note)
    IN /\ products[DoneKey].stockOnHand = q1 + q2
       /\ IF Includes(lower, StrRollback) \/ Includes(lower, StrCancel)
          THEN products[DoneKey].averageCost = c1
          ELSE IsRound2(products[DoneKey].averageCost, q1 * c1 + q2 * c2, q1 + q2)

\* C3 witness: a stockIn at a new cost into existing stock, whose average falls
\* strictly between the two costs and is not their exact blend.
C3_Witness ==
  /\ Succeeded("stockIn")
  /\ Pre.products[DoneKey].stockOnHand > 0
  /\ ~IsRollbackNote(done.call.note)
  /\ products[DoneKey].averageCost > Pre.products[DoneKey].averageCost
  /\ products[DoneKey].averageCost < done.call.costPerUnit
  /\ products[DoneKey].averageCost * products[DoneKey].stockOnHand
       # Pre.products[DoneKey].stockOnHand * Pre.products[DoneKey].averageCost
           + done.call.quantity * done.call.costPerUnit

\* C4: stockOut never succeeds when quantity > stockOnHand; a successful
\* stockOut lowers stockOnHand by exactly quantity and keeps averageCost.
C4_StockOut ==
  Succeeded("stockOut") =>
    /\ done.call.quantity <= Pre.products[DoneKey].stockOnHand
    /\ products[DoneKey].stockOnHand
         = Pre.products[DoneKey].stockOnHand - done.call.quantity
    /\ products[DoneKey].averageCost = Pre.products[DoneKey].averageCost

\* C4 witness: a stockOut of the whole stock on hand has succeeded and left
\* none, at the cost the product had.
C4_Witness ==
  /\ Succeeded("stockOut")
  /\ done.call.quantity > 0
  /\ done.call.quantity = Pre.products[DoneKey].stockOnHand
  /\ products[DoneKey].stockOnHand = 0
  /\ products[DoneKey].averageCost > 0

\* C2: under any interleaving of stockIn, stockOut, stockAdjustment,
\* createInvoice and cancelInvoice, every stored product has stockOnHand >= 0.
C2_StockNonNegative ==
  \A k \in DOMAIN products : products[k].stockOnHand >= 0

\* Task k of call c has read its product and not yet saved it.
Holding(c, k) == calls[c].tasks[k].pc \in {"uread", "usave"}

\* C2 witness: two handlers in flight have each passed the stock test for the
\* same product, and together take more than is on hand.
C2_Witness ==
  \E c1, c2 \in DOMAIN calls :
    /\ c1 # c2
    /\ calls[c1].tasks # <<>> /\ calls[c2].tasks # <<>>
    /\ calls[c1].tasks[1].op = "stockOut" /\ Holding(c1, 1)
    /\ calls[c2].tasks[1].op \in {"stockOut", "stockAdjustment"} /\ Holding(c2, 1)
    /\ calls[c1].tasks[1].sku = calls[c2].tasks[1].sku
    /\ Exists(products, <<calls[c1].t, calls[c1].tasks[1].sku>>)
    /\ calls[c1].tasks[1].quantity + Abs(calls[c2].tasks[1].quantity)
         > products[<<calls[c1].t, calls[c1].tasks[1].sku>>].stockOnHand

RECURSIVE LineQuantity(_, _)
\* The sum of the quantities of the lines of items that name sku.
LineQuantity(items, sku) ==
  IF items = <<>> THEN 0
  ELSE (IF Head(items).sku = sku THEN Head(items).quantity ELSE 0)
         + LineQuantity(Tail(items), sku)

\* The products of the tenant of the last call, stored before and after it.
DoneProducts ==
  {k \in DOMAIN products \cap DOMAIN Pre.products : k[1] = done.call.t}

DoneInvoiceKey == <<done.call.t, done.call.invNo>>

\* C5: after a successful cancelInvoice every product's stockOnHand is its
\* value before plus the sum of the invoice's line quantities for its SKU (also
\* when several lines name one SKU), its averageCost is unchanged, and the
\* invoice is Cancelled with all five totals 0.
C5_CancelRestoresStock ==
  Succeeded("cancelInvoice") =>
    /\ \A k \in DoneProducts :
         /\ products[k].stockOnHand
              = Pre.products[k].stockOnHand
                  + LineQuantity(Pre.invoices[DoneInvoiceKey].items, k[2])
         /\ products[k].averageCost = Pre.products[k].averageCost
    /\ invoices[DoneInvoiceKey].status = "Cancelled"
    /\ invoices[DoneInvoiceKey].subtotal = 0
    /\ invoices[DoneInvoiceKey].totalTax = 0
    /\ invoices[DoneInvoiceKey].totalAmount = 0
    /\ invoices[DoneInvoiceKey].outstandingAmount = 0
    /\ invoices[DoneInvoiceKey].grossProfit = 0

\* C6: createInvoice run alone is all-or-nothing: when it fails no stockOnHand
\* has changed and no invoice is stored; when it succeeds every line's
\* quantity is deducted and the invoice is stored.
C6_CreateInvoiceAllOrNothing ==
  Returned("createInvoice") =>
    IF done.code = OK
    THEN /\ \A k \in DoneProducts :
              products[k].stockOnHand
                = Pre.products[k].stockOnHand - LineQuantity(done.call.items, k[2])
         /\ Exists(invoices, <<done.call.t, done.call.invId>>)
    ELSE /\ DOMAIN products = DOMAIN Pre.products
         /\ \A k \in DOMAIN products :
              products[k].stockOnHand = Pre.products[k].stockOnHand
         /\ invoices = Pre.invoices

OutstandingInRange ==
  \A k \in DOMAIN invoices :
    /\ 0 <= invoices[k].outstandingAmount
    /\ invoices[k].outstandingAmount <= invoices[k].totalAmount

OutstandingNeverGrows ==
  \A k \in DOMAIN invoices \cap DOMAIN invoices' :
    invoices[k].status # "Cancelled"
      => invoices'[k].outstandingAmount <= invoices[k].outstandingAmount

\* C7: with createInvoice, recordPayment and cancelInvoice run one at a time,
\* every stored invoice has 0 <= outstandingAmount <= totalAmount in every
\* state, and no step raises the outstandingAmount of an invoice that is not
\* Cancelled.
C7_OutstandingBounded ==
  [] OutstandingInRange /\ [][OutstandingNeverGrows]_vars

\* C7 witness: a payment has left an invoice partly paid.
C7_Witness ==
  /\ Succeeded("recordPayment")
  /\ invoices[DoneInvoiceKey].outstandingAmount > 0
  /\ invoices[DoneInvoiceKey].outstandingAmount
       < Pre.invoices[DoneInvoiceKey].outstandingAmount
  /\ invoices[DoneInvoiceKey].outstandingAmount
       < invoices[DoneInvoiceKey].totalAmount

\* The conditions under which recordPayment is to fail.
PaymentRefused ==
  \/ ~Exists(Pre.invoices, DoneInvoiceKey)
  \/ Pre.invoices[DoneInvoiceKey].status = "Cancelled"
  \/ done.call.amount <= 0
  \/ done.call.amount > Pre.invoices[DoneInvoiceKey].outstandingAmount

PaidExactlyAtZero ==
  /\ invoices[DoneInvoiceKey].status = "Paid"
       <=> invoices[DoneInvoiceKey].outstandingAmount = 0
  /\ invoices[DoneInvoiceKey].paidOn
       <=> invoices[DoneInvoiceKey].outstandingAmount = 0

\* C8 as stated: recordPayment fails and leaves the invoices unchanged when the
\* invoice is missing or Cancelled or amountReceived <= 0 or amountReceived >
\* outstandingAmount; otherwise it lowers outstandingAmount by exactly
\* amountReceived, and the invoice is Paid with paidOn exactly when the new
\* outstandingAmount is 0.
C8_AsStated ==
  Returned("recordPayment") =>
    IF PaymentRefused
    THEN done.code # OK /\ invoices = Pre.invoices
    ELSE /\ done.code = OK
         /\ invoices[DoneInvoiceKey].outstandingAmount
              = Pre.invoices[DoneInvoiceKey].outstandingAmount - done.call.amount
         /\ PaidExactlyAtZero

\* C8 amended: as C8, but an accepted payment leaves outstandingAmount at
\* round2(outstandingAmount - amountReceived).
C8_RecordPayment ==
  Returned("recordPayment") =>
    IF PaymentRefused
    THEN done.code # OK /\ invoices = Pre.invoices
    ELSE /\ done.code = OK
         /\ IsRound2(invoices[DoneInvoiceKey].outstandingAmount,
                     Pre.invoices[DoneInvoiceKey].outstandingAmount
                       - done.call.amount, 1)
         /\ PaidExactlyAtZero
         /\ \A k \in DOMAIN invoices \ {DoneInvoiceKey} :
              k \in DOMAIN Pre.invoices /\ invoices[k] = Pre.invoices[k]

\* C8 witness: a payment of less than a cent has been accepted and has left
\* the outstandingAmount where it was; the invoice is still Unpaid.
C8_Witness ==
  /\ Succeeded("recordPayment")
  /\ done.call.amount > 0
  /\ done.call.amount < 10
  /\ invoices[DoneInvoiceKey].outstandingAmount
       = Pre.invoices[DoneInvoiceKey].outstandingAmount
  /\ invoices[DoneInvoiceKey].status = "Unpaid"

\* C9: in every reachable state an invoice that is not Cancelled and has
\* outstandingAmount 0 is Paid, and a Paid invoice has outstandingAmount 0;
\* this includes invoices created Unpaid with totalAmount 0.
C9_PaidIffSettled ==
  \A k \in DOMAIN invoices :
    /\ (invoices[k].status # "Cancelled" /\ invoices[k].outstandingAmount = 0)
         => invoices[k].status = "Paid"
    /\ invoices[k].status = "Paid" => invoices[k].outstandingAmount = 0

CancelledUntouched ==
  \A k \in DOMAIN invoices :
    invoices[k].status = "Cancelled"
      => k \in DOMAIN invoices' /\ invoices'[k] = invoices[k]

CancelledRefuses ==
  ( /\ done.call.op \in {"recordPayment", "cancelInvoice"}
    /\ Exists(Pre.invoices, DoneInvoiceKey)
    /\ Pre.invoices[DoneInvoiceKey].status = "Cancelled" )
  => /\ done.code # OK
     /\ invoices = Pre.invoices
     /\ products = Pre.products

\* C10: Cancelled is terminal: with calls run one at a time, every
\* recordPayment and cancelInvoice on a Cancelled invoice fails and changes no
\* invoice and no product, and no step changes a stored Cancelled invoice.
C10_CancelledTerminal ==
  [] CancelledRefuses /\ [][CancelledUntouched]_vars

\* C10 witness: a cancelInvoice on an invoice already Cancelled has been
\* refused with a Validation error.
C10_Witness ==
  /\ Returned("cancelInvoice")
  /\ done.code = 400
  /\ Pre.invoices[DoneInvoiceKey].status = "Cancelled"
  /\ Pre.invoices[DoneInvoiceKey].items # <<>>

\* The operations that write to the store.
WritingOps ==
  {"createProduct", "deleteProduct", "stockIn", "stockOut", "stockAdjustment",
   "createInvoice", "cancelInvoice", "recordPayment"}

BucketAsBefore ==
  /\ products = Pre.products
  /\ movements = Pre.movements
  /\ invoices = Pre.invoices

\* A call made for a company that has no record or is not ACTIVE has returned.
GateClosedCall ==
  /\ done.call.op \in WritingOps
  /\ companies[done.call.t] # "ACTIVE"

\* While a company is not ACTIVE, no step writes or deletes a file of its.
ClosedCompanyUntouched ==
  \A t \in Tenants :
    (companies[t] # "ACTIVE" /\ companies'[t] # "ACTIVE") =>
      /\ \A k \in DOMAIN products \cup DOMAIN products' : k[1] = t =>
           k \in DOMAIN products \cap DOMAIN products' /\ products'[k] = products[k]
      /\ \A k \in DOMAIN movements \cup DOMAIN movements' : k[1] = t =>
           k \in DOMAIN movements \cap DOMAIN movements' /\ movements'[k] = movements[k]
      /\ \A k \in DOMAIN invoices \cup DOMAIN invoices' : k[1] = t =>
           k \in DOMAIN invoices \cap DOMAIN invoices' /\ invoices'[k] = invoices[k]

\* C11: a createProduct, deleteProduct, stockIn, stockOut, stockAdjustment,
\* createInvoice, cancelInvoice or recordPayment invoked for a company that has
\* no record or is not ACTIVE writes and deletes nothing: every product,
\* movement history and invoice is as it was.
C11_ClosedGateNoWrite ==
  [] (GateClosedCall => BucketAsBefore) /\ [][ClosedCompanyUntouched]_vars

\* C11 witness: a cancelInvoice for a suspended company, on an invoice it has
\* stored and not cancelled, has been refused.
C11_Witness ==
  /\ Returned("cancelInvoice")
  /\ companies[done.call.t] = "SUSPENDED"
  /\ Exists(invoices, DoneInvoiceKey)
  /\ invoices[DoneInvoiceKey].status = "Unpaid"
  /\ done.code = 403

\* The operations of the engine that are to ask the gate first.
GatedOps ==
  {"stockIn", "stockOut", "stockAdjustment", "getAllMovements",
   "createInvoice", "cancelInvoice", "recordPayment", "getDashboardSummary"}

\* C12: for a company id with no record every operation of the engine fails
\* with NotFound (404), and for a company that is not ACTIVE with Forbidden
\* (403), whatever the other arguments are.
C12_GateFirst ==
  done.call.op \in GatedOps =>
    /\ companies[done.call.t] = "NONE" => done.code = 404
    /\ companies[done.call.t] \notin {"NONE", "ACTIVE"} => done.code = 403

\* The last call is a stock operation that is to be rejected: a quantity that
\* is not positive (stockIn, stockOut) or is zero (stockAdjustment), more than
\* the stock on hand (stockOut), a stock that would go below zero
\* (stockAdjustment), or a SKU with no product.
StockOpToReject ==
  /\ done.call.op \in StockOps
  /\ \/ done.call.op \in {"stockIn", "stockOut"} /\ done.call.quantity <= 0
     \/ done.call.op = "stockAdjustment" /\ done.call.quantity = 0
     \/ ~Exists(Pre.products, DoneKey)
     \/ /\ Exists(Pre.products, DoneKey)
        /\ \/ /\ done.call.op = "stockOut"
              /\ done.call.quantity > Pre.products[DoneKey].stockOnHand
           \/ /\ done.call.op = "stockAdjustment"
              /\ Pre.products[DoneKey].stockOnHand + done.call.quantity < 0

\* C13: a stock operation that is to be rejected fails and leaves every product
\* and every movement history unchanged.
C13_RejectedStockOpNoEffect ==
  StockOpToReject =>
    /\ done.code # OK
    /\ products = Pre.products
    /\ movements = Pre.movements

\* C13 witness: a stockOut of more than the stock on hand of an existing
\* product has been refused after the product was read.
C13_Witness ==
  /\ Returned("stockOut")
  /\ Exists(Pre.products, DoneKey)
  /\ Pre.products[DoneKey].stockOnHand > 0
  /\ done.call.quantity > Pre.products[DoneKey].stockOnHand
  /\ done.code = 400
  /\ Exists(movements, DoneKey)

\* C14: a stockIn with a negative costPerUnit (and a positive quantity, on an
\* existing product) is rejected with Validation (400), the product unchanged,
\* exactly when the note contains neither "rollback" nor "cancel" in any case;
\* otherwise it is accepted, stockOnHand grows by quantity and averageCost is
\* unchanged.
C14_NegativeCost ==
  ( /\ Returned("stockIn")
    /\ done.call.quantity > 0
    /\ done.call.costPerUnit # NaN /\ done.call.costPerUnit < 0
    /\ Exists(Pre.products, DoneKey) )
  => IF IsRollbackNote(done.call.note)
     THEN /\ done.code = OK
          /\ products[DoneKey].stockOnHand
               = Pre.products[DoneKey].stockOnHand + done.call.quantity
          /\ products[DoneKey].averageCost = Pre.products[DoneKey].averageCost
     ELSE /\ done.code = 400
          /\ products = Pre.products

\* C15: a stockIn with costPerUnit missing and a note that does not mark a
\* rollback fails with Validation (400) and leaves the product and its
\* movement history unchanged.
C15_MissingCost ==
  ( /\ Returned("stockIn")
    /\ done.call.costPerUnit = NaN
    /\ ~IsRollbackNote(done.call.note) )
  => /\ done.code = 400
     /\ products = Pre.products
     /\ movements = Pre.movements

\* The movement history of the last call's product before the call.
HistoryBefore ==
  IF Exists(Pre.movements, DoneKey) /\ Pre.movements[DoneKey] # Corrupt
  THEN Pre.movements[DoneKey] ELSE <<>>

\* The history now is the history before with exactly one record appended.
OneRecordAppended ==
  /\ Exists(movements, DoneKey)
  /\ Len(movements[DoneKey]) = Len(HistoryBefore) + 1
  /\ SubSeq(movements[DoneKey], 1, Len(HistoryBefore)) = HistoryBefore

LastRecord == movements[DoneKey][Len(movements[DoneKey])]

\* C16: a successful stockAdjustment of delta changes stockOnHand by exactly
\* delta, leaves averageCost and the catalog attributes of the product
\* unchanged, and appends one movement of type Stock Adjustment.
C16_StockAdjustment ==
  Succeeded("stockAdjustment") =>
    /\ products[DoneKey].stockOnHand
         = Pre.products[DoneKey].stockOnHand + done.call.quantity
    /\ products[DoneKey].averageCost = Pre.products[DoneKey].averageCost
    /\ \A f \in {"sku", "name", "category", "costPrice", "sellingPrice",
                  "reorderLevel"} :
         products[DoneKey][f] = Pre.products[DoneKey][f]
    /\ OneRecordAppended
    /\ LastRecord.type = "Stock Adjustment"
    /\ LastRecord.quantity = done.call.quantity

\* C16 witness: a negative adjustment of a product whose averageCost is not
\* its costPrice has succeeded.
C16_Witness ==
  /\ Succeeded("stockAdjustment")
  /\ done.call.quantity < 0
  /\ products[DoneKey].averageCost # products[DoneKey].costPrice
  /\ Len(movements[DoneKey]) >= 3

\* Every stored movement history is still there after the step, as a prefix
\* of what is stored then.
HistoryKept ==
  \A k \in DOMAIN movements :
    /\ k \in DOMAIN movements'
    /\ Len(movements'[k]) >= Len(movements[k])
    /\ SubSeq(movements'[k], 1, Len(movements[k])) = movements[k]

\* A step that stores a movement history stores one record more, and that
\* record carries the product state the operation in hand has persisted.
OneRecordPerSave ==
  \A k \in DOMAIN movements' :
    (k \notin DOMAIN movements \/ movements'[k] # movements[k]) =>
      LET old == IF k \in DOMAIN movements THEN movements[k] ELSE <<>>
          rec == movements'[k][Len(movements'[k])]
      IN /\ Len(movements'[k]) = Len(old) + 1
         /\ \E c \in DOMAIN calls : \E j \in DOMAIN calls[c].tasks :
              /\ calls[c].tasks[j].pc = "msave"
              /\ <<calls[c].t, calls[c].tasks[j].sku>> = k
              /\ rec.stockOnHandAfter = calls[c].tasks[j].updatedProduct.stockOnHand
              /\ rec.averageCostAfter = calls[c].tasks[j].updatedProduct.averageCost
              /\ rec.inventoryValueAfter
                   = calls[c].tasks[j].updatedProduct.inventoryValue

\* C17: the movement history of each (tenant, SKU) is append-only: every
\* successful stock operation appends exactly one record, carrying the product
\* state that operation persisted, and in every later state what was stored
\* before is an unmodified prefix of what is stored.
C17_LedgerAppendOnly ==
  [][HistoryKept /\ OneRecordPerSave]_vars

\* The change of stock the last call asked for.
DoneDelta ==
  IF done.call.op = "stockOut" THEN -done.call.quantity ELSE done.call.quantity

\* The last call is a stock operation with acceptable arguments, for an ACTIVE
\* company, on a product whose history file cannot be parsed.
StockOpOnCorruptHistory ==
  /\ done.call.op \in StockOps
  /\ companies[done.call.t] = "ACTIVE"
  /\ ~StockOpToReject
  /\ Exists(Pre.movements, DoneKey)
  /\ Pre.movements[DoneKey] = Corrupt

\* C18: when the stored movement history of a SKU cannot be parsed, a stock
\* operation on that SKU still succeeds: the product is updated as usual and
\* the history afterwards is exactly the one new record.
C18_CorruptHistory ==
  StockOpOnCorruptHistory =>
    /\ done.code = OK
    /\ products[DoneKey].stockOnHand = Pre.products[DoneKey].stockOnHand + DoneDelta
    /\ ValueConsistent(products[DoneKey])
    /\ Len(movements[DoneKey]) = 1
    /\ movements[DoneKey][1].type = MovementType(done.call.op)
    /\ movements[DoneKey][1].quantity = done.call.quantity
    /\ movements[DoneKey][1].stockOnHandAfter = products[DoneKey].stockOnHand
    /\ movements[DoneKey][1].averageCostAfter = products[DoneKey].averageCost
    /\ movements[DoneKey][1].inventoryValueAfter = products[DoneKey].inventoryValue

\* C18 witness: a stockOut on a product whose history file could not be parsed
\* has succeeded.
C18_Witness ==
  /\ Succeeded("stockOut")
  /\ Pre.movements[DoneKey] = Corrupt
  /\ movements[DoneKey] # Corrupt
  /\ products[DoneKey].stockOnHand = Pre.products[DoneKey].stockOnHand - 1

\* The change of stock a stock call asks for.
DeltaOf(call) ==
  IF call.op = "stockOut" THEN -call.quantity ELSE call.quantity

\* Call c is a stock operation on the product of the last call that has done
\* all its steps with success and is about to return, the last call (another
\* stock operation, which succeeded) and c are the only two calls made, and
\* both were invoked on the same stored product.
FinishedWith(c) ==
  /\ nops = 2
  /\ done.call.op \in StockOps
  /\ done.code = OK
  /\ calls[c].op \in StockOps
  /\ calls[c].tasks[1].pc = "ok"
  /\ <<calls[c].t, calls[c].sku>> = DoneKey
  /\ calls[c].pre.products = Pre.products

\* C19: two stock operations on the same (tenant, SKU) that run together are
\* not isolated.  When both have succeeded, the stockOnHand they leave is
\* either that of running them one after the other or that of one of them
\* alone; the second case, in which one update is lost, does happen.
C19_NotIsolated ==
  \A c \in DOMAIN calls :
    FinishedWith(c) =>
      LET s0 == Pre.products[DoneKey].stockOnHand
          d1 == DeltaOf(done.call)
          d2 == DeltaOf(calls[c])
      IN products[DoneKey].stockOnHand \in {s0 + d1 + d2, s0 + d1, s0 + d2}

\* C19 witness: two stock operations on the same product, which succeed in
\* either serial order, have both succeeded and the stock is the result of
\* only one of them, which is the result of neither serial order.
C19_Witness ==
  \E c \in DOMAIN calls :
    /\ FinishedWith(c)
    /\ DeltaOf(done.call) # 0 /\ DeltaOf(calls[c]) # 0
    /\ Pre.products[DoneKey].stockOnHand + DeltaOf(done.call) >= 0
    /\ Pre.products[DoneKey].stockOnHand + DeltaOf(calls[c]) >= 0
    /\ products[DoneKey].stockOnHand
         # Pre.products[DoneKey].stockOnHand + DeltaOf(done.call) + DeltaOf(calls[c])
    /\ products[DoneKey].stockOnHand
         \in {Pre.products[DoneKey].stockOnHand + DeltaOf(done.call),
              Pre.products[DoneKey].stockOnHand + DeltaOf(calls[c])}

\* The bucket's products and movements after a stock call has run from start
\* to end with nothing else running.
RunAlone(call, b) ==
  LET key     == <<call.t, call.sku>>
      task    == Invoke(call.op, call.sku, call.quantity, call.costPerUnit,
                        call.note)
      product == b.products[key]
      refused ==
        \/ task.pc = "fail"
        \/ validateCompanyAccess(call.t) # 0
        \/ ~Exists(b.products, key)
        \/ call.op = "stockOut" /\ InsufficientStock(product, call.quantity)
        \/ call.op = "stockAdjustment"
             /\ NegativeStock(product.stockOnHand + call.quantity)
      updates ==
        CASE call.op = "stockIn" ->
               StockInUpdates(product, call.quantity, call.costPerUnit, call.note)
          [] call.op = "stockOut" ->
               StockQtyUpdates(product, product.stockOnHand - call.quantity)
          [] OTHER ->
               StockQtyUpdates(product, product.stockOnHand + call.quantity)
      moveCost == IF call.costPerUnit \notin {0, NaN} THEN call.costPerUnit
                  ELSE OrZero(product.averageCost)
      history == IF Exists(b.movements, key) /\ b.movements[key] # Corrupt
                 THEN b.movements[key] ELSE <<>>
      record  == MovementRecord([task EXCEPT !.moveCost = moveCost,
                   !.updatedProduct = MergeUpdates(product, updates)])
  IN IF refused THEN b
     ELSE [products  |-> Save(b.products, key, MergeUpdates(product, updates)),
           movements |-> Save(b.movements, key, Append(history, record))]

\* The last call to return is a stock call that went through its steps, call c
\* is a stock call on another product file (another SKU or another company)
\* that has done all its steps, and no other call has been made.
BothFinishedApart(c) ==
  /\ nops = 2
  /\ done.call.op \in StockOps
  /\ done.call.tasks # <<>>
  /\ calls[c].op \in StockOps
  /\ calls[c].tasks[1].pc \in {"ok", "fail"}
  /\ <<calls[c].t, calls[c].sku>> # DoneKey

\* C20: two stock operations on different SKUs or for different companies do
\* not interfere: however their steps interleave, the products and movement
\* histories they leave are those of running one after the other, in either
\* order.
C20_DifferentKeysIndependent ==
  \A c \in DOMAIN calls :
    BothFinishedApart(c) =>
      LET b0 == [products  |-> InitialProducts(cfg),
                 movements |-> InitialMovements(cfg)]
          b  == [products |-> products, movements |-> movements]
      IN /\ b = RunAlone(calls[c], RunAlone(done.call, b0))
         /\ b = RunAlone(done.call, RunAlone(calls[c], b0))

\* C20 witness: two stockIns of the same SKU for two companies, both invoked
\* before either had written, have both succeeded.
C20_Witness ==
  \E c \in DOMAIN calls :
    /\ BothFinishedApart(c)
    /\ done.code = OK /\ calls[c].tasks[1].pc = "ok"
    /\ calls[c].sku = done.call.sku /\ calls[c].t # done.call.t
    /\ calls[c].pre.products = InitialProducts(cfg)
    /\ Pre.products = InitialProducts(cfg)
    /\ products[DoneKey] # InitialProducts(cfg)[DoneKey]
    /\ products[<<calls[c].t, calls[c].sku>>] # InitialProducts(cfg)[DoneKey]

\* The five totals of a stored invoice are zero.
ZeroTotals(invoice) ==
  /\ invoice.subtotal = 0
  /\ invoice.totalTax = 0
  /\ invoice.totalAmount = 0
  /\ invoice.outstandingAmount = 0
  /\ invoice.grossProfit = 0

CancelledStays ==
  \A k \in DOMAIN invoices :
    invoices[k].status = "Cancelled"
      => /\ k \in DOMAIN invoices'
         /\ invoices'[k].status = "Cancelled"
         /\ ZeroTotals(invoices'[k])

\* C21: once cancelInvoice has stored an invoice as Cancelled, it stays
\* Cancelled with zero totals in every later state, also when a recordPayment
\* that read the invoice before the cancellation saves afterwards.
C21_CancelledForever == [][CancelledStays]_vars

\* C22: in every reachable state, also while a stockOut or stockAdjustment
\* runs together with a stockIn on the same SKU, every stored product has
\* inventoryValue = round2(stockOnHand x averageCost).
C22_ValueAlwaysConsistent ==
  \A k \in DOMAIN products : ValueConsistent(products[k])

\* The stock figures of a stored product.
Figures(product) ==
  <<product.stockOnHand, product.averageCost, product.inventoryValue>>

\* The scenario, with the inventoryValue that follows its second stockIn left
\* open: the product created and stocked with 10 at 10.00; then stockIn of 5 at
\* 20.00; then an invoice for 5 units; then its cancellation.
ScenarioWith(valueAfterSecondStockIn) ==
  LET A == <<"t1", "A">>
  IN /\ nops = 0 => Figures(products[A]) = <<10, 10000, 100000>>
     /\ ( /\ nops = 1 /\ Succeeded("stockIn")
          /\ done.call.quantity = 5 /\ done.call.costPerUnit = 20000 )
        => Figures(products[A]) = <<15, 13330, valueAfterSecondStockIn>>
     /\ ( /\ nops = 2 /\ Succeeded("createInvoice")
          /\ done.call.items = <<Item("A", 5)>>
          /\ Pre.products[A].stockOnHand = 15 )
        => products[A].stockOnHand = 10
     /\ ( /\ nops = 3 /\ Succeeded("cancelInvoice")
          /\ Pre.invoices[DoneInvoiceKey].items # <<>>
          /\ Pre.invoices[DoneInvoiceKey].items[1].quantity = 5
          /\ Pre.products[A].stockOnHand = 10
          /\ Pre.products[A].averageCost = 13330 )
        => /\ products[A].stockOnHand = 15
           /\ products[A].averageCost = 13330
           /\ ZeroTotals(invoices[DoneInvoiceKey])

\* C23 as stated: the scenario with inventoryValue 200.00 after the second
\* stockIn.
C23_AsStated == ScenarioWith(200000)

\* C23: the scenario: created at 10.00 and stocked with 10 at 10.00 the
\* product has averageCost 10, stockOnHand 10, inventoryValue 100; stockIn of
\* 5 at 20.00 gives averageCost 13.33, stockOnHand 15 and inventoryValue
\* round2(15 x 13.33) = 199.95; createInvoice for 5 units gives stockOnHand 10;
\* cancelInvoice gives stockOnHand 15 with averageCost still 13.33 and the
\* invoice totals zero.
C23_Scenario == ScenarioWith(199950)

\* C23 witness: the scenario has run to its end, the cancellation.
C23_Witness ==
  /\ nops = 3 /\ Succeeded("cancelInvoice")
  /\ Pre.invoices[DoneInvoiceKey].items = <<[sku |-> "A", name |-> "A", quantity |-> 5,
        sellingPrice |-> 15000, costPrice |-> 10000, taxPercent |-> 0,
        taxAmount |-> 0, lineSubtotal |-> 75000, lineTotal |-> 75000]>>
  /\ Pre.products[<<"t1", "A">>].stockOnHand = 10
  /\ Pre.products[<<"t1", "A">>].averageCost = 13330
  /\ Figures(products[<<"t1", "A">>]) = <<15, 13330, 199950>>

RECURSIVE Revenue(_, _, _)
\* Sum over the lines of quantity x sellingPrice, at the prices of prods.
Revenue(items, t, prods) ==
  IF items = <<>> THEN 0
  ELSE Head(items).quantity * prods[<<t, Head(items).sku>>].sellingPrice
         + Revenue(Tail(items), t, prods)

RECURSIVE CostOfGoods(_, _, _)
\* Sum over the lines of quantity x costPrice, at the prices of prods.
CostOfGoods(items, t, prods) ==
  IF items = <<>> THEN 0
  ELSE Head(items).quantity * prods[<<t, Head(items).sku>>].costPrice
         + CostOfGoods(Tail(items), t, prods)

\* The invoice the last call, a createInvoice, stored.
DoneInvoice == invoices[<<done.call.t, done.call.invId>>]

\* What the requested status makes of the new invoice.
StatusAsRequested(inv) ==
  IF done.call.status = "Paid"
  THEN inv.outstandingAmount = 0 /\ inv.status = "Paid" /\ inv.paidOn
  ELSE /\ inv.outstandingAmount = inv.totalAmount
       /\ inv.status = "Unpaid" /\ ~inv.paidOn

\* C24: a created invoice has subtotal = the sum over its lines of quantity x
\* sellingPrice, totalAmount = subtotal + totalTax and grossProfit = subtotal -
\* the sum of quantity x costPrice (amounts being stored to two decimals), at
\* the product's prices at creation time; outstandingAmount = totalAmount and
\* status Unpaid, unless the requested status is Paid: then outstandingAmount
\* = 0, status Paid and paidOn is set.
C24_CreatedInvoiceTotals ==
  Succeeded("createInvoice") =>
    LET S == Revenue(done.call.items, done.call.t, Pre.products)
        C == CostOfGoods(done.call.items, done.call.t, Pre.products)
    IN /\ IsRound2(DoneInvoice.subtotal, S, 1)
       /\ DoneInvoice.totalAmount = DoneInvoice.subtotal + DoneInvoice.totalTax
       /\ IsRound2(DoneInvoice.grossProfit, S - C, 1)
       /\ StatusAsRequested(DoneInvoice)

\* The status codes of the error kinds.
Validation == 400

Conflict == 409

\* Every line names a product stored before the call, and some line asks for
\* more than its stock.
SomeLineShort ==
  /\ \A i \in DOMAIN done.call.items :
       Exists(Pre.products, <<done.call.t, done.call.items[i].sku>>)
  /\ \E i \in DOMAIN done.call.items :
       done.call.items[i].quantity
         > Pre.products[<<done.call.t, done.call.items[i].sku>>].stockOnHand

\* C25: insufficient stock is a Conflict, not a Validation error: a stockOut of
\* more than the stock and a createInvoice with a line of more than the stock
\* fail with Conflict, a stockOut of a quantity <= 0 fails with Validation.
C25_InsufficientStockIsConflict ==
  /\ ( /\ Returned("stockOut")
       /\ done.call.quantity > 0
       /\ Exists(Pre.products, DoneKey)
       /\ done.call.quantity > Pre.products[DoneKey].stockOnHand )
     => done.code = Conflict
  /\ (Returned("createInvoice") /\ SomeLineShort) => done.code = Conflict
  /\ (Returned("stockOut") /\ done.call.quantity <= 0) => done.code = Validation

InvoiceCreated ==
  /\ done' # done
  /\ done'.call.op = "createInvoice"
  /\ done'.code = OK

\* A createInvoice that succeeds stores its invoice under a number no stored
\* invoice of the tenant has, and adds one invoice to the stored ones.
NewInvoiceNumber ==
  InvoiceCreated =>
    /\ ~Exists(invoices, <<done'.call.t, done'.call.invId>>)
    /\ Cardinality(DOMAIN invoices') = Cardinality(DOMAIN invoices) + 1

\* C27: invoice numbers are unique per tenant: every successful createInvoice
\* stores its invoice under a number different from that of every invoice
\* already stored, so createInvoice never overwrites a stored invoice and each
\* success adds one stored invoice, however close in time the calls are.
C27_InvoiceNumbersUnique == [][NewInvoiceNumber]_vars

\* A stored invoice stays stored, and a step that changes it is the save of a
\* recordPayment or of a cancelInvoice on that invoice, which keeps its lines.
InvoicesFrozen ==
  \A k \in DOMAIN invoices :
    /\ k \in DOMAIN invoices'
    /\ invoices'[k] # invoices[k] =>
         /\ done'.call.op \in {"recordPayment", "cancelInvoice"}
         /\ done'.code = OK
         /\ <<done'.call.t, done'.call.invNo>> = k
         /\ invoices'[k].items = invoices[k].items

\* C28: an issued invoice is a frozen snapshot: no step of stockIn, stockOut,
\* stockAdjustment, updateProduct or deleteProduct changes a field of a stored
\* invoice; only recordPayment and cancelInvoice change a stored invoice, and
\* they leave its line items as they are.
C28_InvoiceFrozen == [][InvoicesFrozen]_vars

\* C28 witness: the selling price of a product has been changed after an
\* invoice with a line for it was issued; the line keeps the old price.
C28_Witness ==
  /\ Succeeded("updateProduct")
  /\ \E k \in DOMAIN invoices :
       /\ invoices[k] = Pre.invoices[k]
       /\ invoices[k].items # <<>>
       /\ invoices[k].items[1].sku = done.call.sku
       /\ invoices[k].items[1].sellingPrice = Pre.products[DoneKey].sellingPrice
       /\ invoices[k].items[1].sellingPrice # products[DoneKey].sellingPrice

\* Invoice number n of company t is stored, is not Cancelled and, if inMonth,
\* is dated in the month of the clock.
Counts(t, n, inMonth) ==
  /\ Exists(invoices, <<t, n>>)
  /\ invoices[<<t, n>>].status # "Cancelled"
  /\ inMonth => invoices[<<t, n>>].date \div MonthLength = clock \div MonthLength

RECURSIVE TotalOf(_, _, _, _)
\* The sum of a field over the invoices numbered 1..n of company t that count.
TotalOf(t, n, field, inMonth) ==
  IF n = 0 THEN 0
  ELSE (IF Counts(t, n, inMonth) THEN invoices[<<t, n>>][field] ELSE 0)
         + TotalOf(t, n - 1, field, inMonth)

RECURSIVE SoldOf(_, _, _)
\* The quantity of the product named name on the lines of the invoices
\* numbered 1..n of company t that count for the month.
SoldOf(t, n, name) ==
  IF n = 0 THEN 0
  ELSE (IF Counts(t, n, TRUE) THEN LineQuantity(invoices[<<t, n>>].items, name)
        ELSE 0)
         + SoldOf(t, n - 1, name)

\* The figures of the summary the last call returned.
SummaryFigures ==
  Succeeded("getDashboardSummary") =>
    LET t == done.call.t
        r == done.call.result
    IN /\ r.totalOutstanding = TotalOf(t, clock, "outstandingAmount", FALSE)
       /\ r.monthlySales = TotalOf(t, clock, "totalAmount", TRUE)
       /\ r.monthlyProfit = TotalOf(t, clock, "grossProfit", TRUE)
       /\ \A name \in {"A", "B", "C"} :
            IF name \in DOMAIN r.topProducts
            THEN r.topProducts[name] = SoldOf(t, clock, name)
            ELSE SoldOf(t, clock, name) = 0

\* The step in which getDashboardSummary returns writes nothing.
SummaryReadsOnly ==
  (done' # done /\ done'.call.op = "getDashboardSummary")
    => UNCHANGED <<companies, products, movements, invoices>>

\* C29: getDashboardSummary returns totalOutstanding = the sum of
\* outstandingAmount over all stored non-Cancelled invoices of the tenant, and
\* monthlySales, monthlyProfit and the quantities per product summed over the
\* non-Cancelled invoices dated in the current month; a Cancelled invoice
\* counts in none of them, and the call changes no stored record.
C29_DashboardSummary == [] SummaryFigures /\ [][SummaryReadsOnly]_vars

\* C29 witness: a summary has been returned with an invoice of an earlier
\* month still to be paid and sales in the month of the call.
C29_Witness ==
  /\ Succeeded("getDashboardSummary")
  /\ done.call.result.totalOutstanding > done.call.result.monthlySales
  /\ done.call.result.monthlySales > 0
  /\ \E n \in DOMAIN done.call.result.topProducts :
       done.call.result.topProducts[n] > 0

\* The quantity of the product sku a stockOut or createInvoice call deducts.
Deducts(call, sku) ==
  IF call.op = "stockOut" THEN (IF call.sku = sku THEN call.quantity ELSE 0)
  ELSE LineQuantity(call.items, sku)

\* A stockOut or createInvoice in flight has made all its deductions and is
\* about to report success.
AboutToSucceed(call) ==
  \/ call.op = "stockOut" /\ call.tasks[1].pc = "ok"
  \/ /\ call.op = "createInvoice"
     /\ call.pc = "deduct"
     /\ call.idx > Len(call.finalItems)
     /\ LineDeducted(call)

\* C30: no overselling: when the only two calls made are a stockOut or
\* createInvoice that has succeeded and another that is about to, running
\* together, the quantity of each product they have deducted between them is
\* at most the stock the product had before them.
C30_NoOverselling ==
  \A c \in DOMAIN calls :
    ( /\ nops = 2
      /\ done.call.op \in {"stockOut", "createInvoice"}
      /\ done.code = OK
      /\ calls[c].op \in {"stockOut", "createInvoice"}
      /\ calls[c].t = done.call.t
      /\ AboutToSucceed(calls[c]) )
    => \A k \in DOMAIN InitialProducts(cfg) :
         k[1] = done.call.t =>
           Deducts(done.call, k[2]) + Deducts(calls[c], k[2])
             <= InitialProducts(cfg)[k].stockOnHand

\* The step ends a recordPayment with success, the call that ended before it
\* being a recordPayment on the same invoice that succeeded too, made when
\* nothing had been paid.
SecondPayment ==
  /\ \E c \in DOMAIN calls \ DOMAIN calls' : calls[c].op = "recordPayment"
  /\ done.call.op = "recordPayment" /\ done.code = OK
  /\ done'.call.op = "recordPayment" /\ done'.code = OK
  /\ <<done'.call.t, done'.call.invNo>> = DoneInvoiceKey
  /\ Pre.invoices[DoneInvoiceKey].outstandingAmount
       = Pre.invoices[DoneInvoiceKey].totalAmount

\* The two amounts paid are no more than the total of the invoice, and what
\* is left of the total is the outstandingAmount stored.
PaymentsAddUp ==
  SecondPayment =>
    /\ done.call.amount + done'.call.amount
         <= invoices'[DoneInvoiceKey].totalAmount
    /\ invoices'[DoneInvoiceKey].outstandingAmount
         = invoices'[DoneInvoiceKey].totalAmount
             - (done.call.amount + done'.call.amount)

\* C31: the amounts of the recordPayment calls on an invoice that report
\* success sum to no more than its totalAmount, and totalAmount less that sum
\* is the outstandingAmount stored, also when the calls interleave: so for
\* the first two payments of an invoice.
C31_PaymentsNeverExceedTotal == [][PaymentsAddUp]_vars

RECURSIVE RestoredFor(_, _)
\* The sum of the quantities of the Stock In records of history whose note is
\* the rollback note of the invoice numbered invoiceNumber.
RestoredFor(history, invoiceNumber) ==
  IF history = <<>> \/ history = Corrupt THEN 0
  ELSE (IF Head(history).type = "Stock In"
             /\ Head(history).note = RollbackNote(invoiceNumber)
        THEN Head(history).quantity ELSE 0)
         + RestoredFor(Tail(history), invoiceNumber)

\* C32: in every state, also after a cancelInvoice that failed part-way and
\* was called again, the quantity the rollback stock-ins made for an invoice
\* have restored to a product, as its movement history records them, is at
\* most the quantity of the product on the lines of the invoice, which is
\* what the invoice deducted.
C32_RollbackBounded ==
  \A k \in DOMAIN invoices : \A m \in DOMAIN movements :
    m[1] = k[1] =>
      RestoredFor(movements[m], k[2]) <= LineQuantity(invoices[k].items, m[2])

RECURSIVE NetQuantity(_)
\* The net sum of the quantities of a movement history: Stock In added, Stock
\* Out subtracted, Stock Adjustment with its sign.
NetQuantity(history) ==
  IF history = <<>> THEN 0
  ELSE (IF Head(history).type = "Stock Out" THEN -Head(history).quantity
        ELSE Head(history).quantity)
         + NetQuantity(Tail(history))

\* The movement history stored for a product, empty if there is no file.
HistoryOf(k) == IF Exists(movements, k) THEN movements[k] ELSE <<>>

\* C33: the ledger reproduces the stock: with calls run one at a time, when
\* no call is running the stockOnHand of every stored product is the net sum
\* of the quantities of its movement history, and the stockOnHandAfter of the
\* last record of a history that is not empty.
C33_LedgerReproducesStock ==
  Idle =>
    \A k \in DOMAIN products :
      /\ products[k].stockOnHand = NetQuantity(HistoryOf(k))
      /\ HistoryOf(k) # <<>> =>
           HistoryOf(k)[Len(HistoryOf(k))].stockOnHandAfter = products[k].stockOnHand

\* C34: when a stockIn, stockOut or stockAdjustment has returned a failure to
\* its caller, be it a storage failure while the movement record was appended,
\* the product file of the SKU is as it was when the call was made: the same
\* product, or no file as before.
C34_FailedStockOpKeepsProduct ==
  ( /\ done.call.op \in StockOps
    /\ done.code # OK
    /\ Idle )
  => IF Exists(Pre.products, DoneKey)
     THEN Exists(products, DoneKey) /\ products[DoneKey] = Pre.products[DoneKey]
     ELSE ~Exists(products, DoneKey)

\* C35: when the store failed while recordMovement looked for or read the
\* history of a SKU (the file itself being sound) and the stock operation has
\* gone on to succeed, the records the history held before the call are still
\* there, at the start of the history stored.
C35_TransientFailureKeepsHistory ==
  ( /\ done.call.op \in StockOps
    /\ done.code = OK
    /\ Exists(Pre.movements, DoneKey)
    /\ Pre.movements[DoneKey] # Corrupt
    /\ Pre.movements[DoneKey] # <<>>
    /\ done.call.tasks[1].history = <<>> )
  => /\ Exists(movements, DoneKey)
     /\ Len(movements[DoneKey]) >= Len(Pre.movements[DoneKey])
     /\ SubSeq(movements[DoneKey], 1, Len(Pre.movements[DoneKey]))
          = Pre.movements[DoneKey]

\* The keys of a store whose file the step creates, changes or deletes.
Written(before, after) ==
  {k \in (DOMAIN before) \cup (DOMAIN after) :
     ~(k \in DOMAIN before /\ k \in DOMAIN after /\ before[k] = after[k])}

\* The companies for which the step runs: that of the call in flight that
\* takes the step, or of the call that is made and returns in it (a call that
\* does all its work in one step leaves the calls in flight as they are).
Actors ==
  {calls[c].t : c \in {x \in DOMAIN calls :
                         x \notin DOMAIN calls' \/ calls'[x] # calls[x]}}
    \cup (IF calls' = calls /\ done'.call.op # "none" THEN {done'.call.t} ELSE {})

\* A step writes product, movement and invoice files of its own company only.
WritesOwnRecords ==
  \A k \in Written(products, products') \cup Written(movements, movements')
             \cup Written(invoices, invoices') :
    k[1] \in Actors

\* The reports returned for a company are made of its own records: the
\* movements of its own history files, the outstanding amounts of its own
\* invoices.
ResultsOfOwnRecords ==
  /\ Succeeded("getAllMovements") =>
       \A k \in DOMAIN done.call.result :
         /\ k[1] = done.call.t
         /\ done.call.result[k] = Pre.movements[k]
  /\ Succeeded("getDashboardSummary") =>
       done.call.result.totalOutstanding
         = Round2(SumOver({Pre.invoices[k] :
                             k \in {x \in DOMAIN Pre.invoices :
                                      /\ x[1] = done.call.t
                                      /\ Pre.invoices[x].status # "Cancelled"}},
                          "outstandingAmount"))

\* C36: tenant isolation: every step of an operation invoked for a company
\* writes only product, movement and invoice records of that company, so the
\* records of every other company stay as they are, and the reports returned
\* for a company are computed from its own records.
C36_TenantIsolation == [] ResultsOfOwnRecords /\ [][WritesOwnRecords]_vars

\* C36 witness: one company has stocked a product and has one more movement
\* record than before; the other company, whose product and history of the
\* same SKU are as they were, has then been returned its own movements.
C36_Witness ==
  /\ Succeeded("getAllMovements")
  /\ done.call.t = "t1"
  /\ Len(movements[<<"t2", "A">>]) > Len(InitialMovements(cfg)[<<"t2", "A">>])
  /\ products[<<"t2", "A">>] # InitialProducts(cfg)[<<"t2", "A">>]
  /\ products[<<"t1", "A">>] = InitialProducts(cfg)[<<"t1", "A">>]
  /\ done.call.result[<<"t1", "A">>] = InitialMovements(cfg)[<<"t1", "A">>]

\* x is a number and is not negative.
NonNegative(x) == x # NaN /\ x >= 0

\* The last call is a stockIn that succeeded, was no rollback, and put stock
\* bought at a cost quoted to the cent into a product whose averageCost was
\* quoted to the cent.
PlainStockInToTheCent ==
  /\ Succeeded("stockIn")
  /\ Idle
  /\ ~IsRollbackNote(done.call.note)
  /\ done.call.costPerUnit # NaN
  /\ done.call.costPerUnit % 10 = 0
  /\ NonNegative(Pre.products[DoneKey].averageCost)
  /\ Pre.products[DoneKey].averageCost % 10 = 0

\* C37: the averageCost of every stored product is a number that is not
\* negative, in every state; and after a successful stockIn that is no
\* rollback, at cost c into a product of averageCost a (both to the cent), the
\* new averageCost is at least the lesser and at most the greater of a and c,
\* and is c when the product had no stock.
C37_AverageCostBounds ==
  /\ \A k \in DOMAIN products : NonNegative(products[k].averageCost)
  /\ PlainStockInToTheCent =>
       LET a == Pre.products[DoneKey].averageCost
           c == done.call.costPerUnit
           new == products[DoneKey].averageCost
       IN /\ (IF a <= c THEN a ELSE c) <= new
          /\ new <= Max(a, c)
          /\ Pre.products[DoneKey].stockOnHand = 0 => new = c

=============================================================================
